---- MODULE Spec2Model ----
(***************************************************************************)
(* The webhook event router of linear-agent-v0 (handleLinearWebhook and    *)
(* its two protocol handlers), the session store, the plan helpers and the *)
(* repository resolver.  A handler is a JavaScript async function: the     *)
(* code between two awaits runs atomically, so every action below is one   *)
(* resumption of a handler after the call it awaits has settled.           *)
(***************************************************************************)
EXTENDS Integers, Sequences, FiniteSets, TLC

\* ------------------------------------------------------------------ bounds
\* events delivered in one behaviour
MaxEvents == 3
\* length of an issueRepositorySuggestions list
MaxSuggestions == 2
\* session-store calls in one behaviour of the library specification
MaxStoreCalls == 4

\* handler invocations: the host delivers the events of the model one at a time
Procs == {1}

\* ------------------------------------------------------------------ values
Undefined == "undefined"
Null == "null"

\* JavaScript truthiness of a string-or-absent value
Truthy(s) == s # Undefined /\ s # Null /\ s # ""

\* tracker session ids carried by the events
Ids == {"S1", "S2"}

\* the issue a tracker session belongs to
IssueIdentifier(id) == IF id = "S1" THEN "ABC-1" ELSE "XY-2"

\* String.prototype.toLowerCase on the strings in use
ToLowerCase(s) ==
    CASE s = "ABC-1" -> "abc-1"
      [] s = "XY-2" -> "xy-2"
      [] s = "linear-ABC-1" -> "linear-abc-1"
      [] s = "linear-XY-2" -> "linear-xy-2"
      [] OTHER -> s

\* suggestions the tracker may attach: one with an explicit url, one without
SugWithUrl == [owner |-> "acme", name |-> "web", url |-> "https://git.acme.dev/web"]
SugNoUrl == [owner |-> "acme", name |-> "api", url |-> ""]
SuggestionPool == {SugWithUrl, SugNoUrl}

SeqsUpTo(S, n) == UNION {[1..k -> S] : k \in 0..n}

SuggestionLists == SeqsUpTo(SuggestionPool, MaxSuggestions)

\* the outcome of matching the GitHub-URL pattern against a description:
\* the two captured groups, the second one split into its base and a
\* trailing ".git"
NoMatch == [matched |-> FALSE, owner |-> "", base |-> "", git |-> FALSE]
Descriptions ==
    {NoMatch, [matched |-> TRUE, owner |-> "acme", base |-> "docs", git |-> TRUE]}

\* prompt texts, as sequences of characters
PromptEmpty == <<>>
PromptDeploy == <<"p", "l", "s", " ", "D", "e", "p", "l", "o", "y", " ", "i", "t">>
PromptRefine == <<"r", "e", "d", "e", "p", "l", "o", "y", "s", " ", "o", "k">>
Prompts == {PromptEmpty, PromptDeploy, PromptRefine}

\* ------------------------------------------------------ repository resolver
GithubUrl(owner, name) == "https://github.com/" \o owner \o "/" \o name

SuggestionUrl(repo) == IF Truthy(repo.url) THEN repo.url ELSE GithubUrl(repo.owner, repo.name)

\* a resolver that reads the description before the suggestions
detectRepositoryDescriptionFirst(agentSession) ==
    IF agentSession.issue.description.matched
    THEN [repoUrl |-> GithubUrl(agentSession.issue.description.owner,
                                agentSession.issue.description.base),
          source |-> "description",
          suggestions |-> <<>>]
    ELSE IF Len(agentSession.issueRepositorySuggestions) > 0
    THEN [repoUrl |-> SuggestionUrl(agentSession.issueRepositorySuggestions[1]),
          source |-> "issueRepositorySuggestions",
          suggestions |-> agentSession.issueRepositorySuggestions]
    ELSE [repoUrl |-> Null, source |-> "none", suggestions |-> <<>>]

detectRepository(agentSession) ==
    IF Len(agentSession.issueRepositorySuggestions) > 0
    THEN [repoUrl |-> SuggestionUrl(agentSession.issueRepositorySuggestions[1]),
          source |-> "issueRepositorySuggestions",
          suggestions |-> agentSession.issueRepositorySuggestions]
    ELSE IF agentSession.issue.description.matched
    THEN [repoUrl |-> GithubUrl(agentSession.issue.description.owner,
                                agentSession.issue.description.base),
          source |-> "description",
          suggestions |-> <<>>]
    ELSE [repoUrl |-> Null, source |-> "none", suggestions |-> <<>>]

generateProjectName(issue) == ToLowerCase("linear-" \o issue.identifier)

\* a resolver that asks only from the third candidate on
needsRepositorySelectionOffByOne(agentSession) ==
    Len(agentSession.issueRepositorySuggestions) > 2

needsRepositorySelection(agentSession) ==
    Len(agentSession.issueRepositorySuggestions) > 1

RepoKey(i) == "repo-" \o ToString(i - 1)

\* options whose value is always the GitHub address built from owner and name
formatRepoOptionsForSelectGithub(suggestions) ==
    [i \in 1..Len(suggestions) |->
        [key |-> RepoKey(i),
         label |-> suggestions[i].owner \o "/" \o suggestions[i].name,
         value |-> GithubUrl(suggestions[i].owner, suggestions[i].name)]]

formatRepoOptionsForSelect(suggestions) ==
    [i \in 1..Len(suggestions) |->
        [key |-> RepoKey(i),
         label |-> suggestions[i].owner \o "/" \o suggestions[i].name,
         value |-> SuggestionUrl(suggestions[i])]]

\* ------------------------------------------------------------- agent plans
Step(text, state) == [text |-> text, state |-> state]

generateUIGenerationPlan(hasRepo, needsSelection) ==
    <<Step("Analyze issue requirements", "COMPLETED")>>
    \o (IF needsSelection
        THEN <<Step("Wait for repository selection", "CURRENT"),
               Step("Import repository context", "PENDING")>>
        ELSE IF hasRepo
        THEN <<Step("Import repository context", "CURRENT")>>
        ELSE <<>>)
    \o <<Step("Generate UI components with V0", IF hasRepo THEN "PENDING" ELSE "CURRENT"),
         Step("Review generated code", "PENDING"),
         Step("Deploy preview to Vercel", "PENDING")>>

\* a markStepCurrent that touches the one step only
markStepCurrentOnly(steps, index) ==
    [i \in 1..Len(steps) |->
        [steps[i] EXCEPT !.state = IF i - 1 = index THEN "CURRENT" ELSE @]]

\* a markStepCurrent that leaves the earlier steps as they are
markStepCurrentKeepsEarlier(steps, index) ==
    [i \in 1..Len(steps) |->
        [steps[i] EXCEPT !.state =
            IF i - 1 < index THEN @
            ELSE IF i - 1 = index THEN "CURRENT" ELSE "PENDING"]]

\* index is the JavaScript (0-based) index; position i of the sequence is index i-1
markStepCurrent(steps, index) ==
    [i \in 1..Len(steps) |->
        [steps[i] EXCEPT !.state =
            IF i - 1 < index THEN "COMPLETED"
            ELSE IF i - 1 = index THEN "CURRENT" ELSE "PENDING"]]

markStepCompleted(steps, index) ==
    [i \in 1..Len(steps) |->
        [steps[i] EXCEPT !.state = IF i - 1 <= index THEN "COMPLETED" ELSE @]]

markStepFailed(steps, index) ==
    [i \in 1..Len(steps) |->
        [steps[i] EXCEPT !.state = IF i - 1 = index THEN "FAILED" ELSE @]]

\* ---------------------------------------------------- deploy classification
IsWordChar(c) == c \notin {" ", ",", ".", "'", "!", "-"}

LowerChar(c) ==
    CASE c = "D" -> "d"
      [] c = "E" -> "e"
      [] c = "P" -> "p"
      [] c = "L" -> "l"
      [] c = "O" -> "o"
      [] c = "Y" -> "y"
      [] OTHER -> c

DeployWord == <<"d", "e", "p", "l", "o", "y">>

\* a test for the letters anywhere in the text, without the word boundaries
isDeployCommandAnywhere(message) ==
    \E i \in 1..Len(message) :
        /\ i + 5 <= Len(message)
        /\ \A k \in 1..6 : LowerChar(message[i + k - 1]) = DeployWord[k]

\* /\bdeploy\b/i.test(message)
isDeployCommand(message) ==
    \E i \in 1..Len(message) :
        /\ i + 5 <= Len(message)
        /\ \A k \in 1..6 : LowerChar(message[i + k - 1]) = DeployWord[k]
        /\ (i = 1 \/ ~IsWordChar(message[i - 1]))
        /\ (i + 5 = Len(message) \/ ~IsWordChar(message[i + 6]))

\* ------------------------------------------------------------ model tiers
\* label names an issue may carry
LabelLists == {<<>>, <<"L4">>}

DefaultComplexity == 3

extractComplexityFromLabels(labelNames) ==
    IF \E i \in 1..Len(labelNames) : labelNames[i] \in {"L1", "L2", "complexity:1", "complexity:2"}
    THEN 2
    ELSE IF \E i \in 1..Len(labelNames) : labelNames[i] \in {"L4", "L5", "complexity:4", "complexity:5"}
    THEN 4
    ELSE DefaultComplexity

\* a tier function whose lowest tier ends below complexity 2
getModelTierStrict(complexity) ==
    IF complexity < 2 THEN "mini" ELSE IF complexity = 3 THEN "pro" ELSE "max"

getModelTier(complexity) ==
    IF complexity <= 2 THEN "mini" ELSE IF complexity = 3 THEN "pro" ELSE "max"

\* ------------------------------------------------------------ session store
\* the Map of session-store.js is a function whose domain is the set of keys
\* a record that starts with a deployment link
SessionRecordDeployed(id, chatId, projectId, chatUrl, repoUrl, now) ==
    [linearSessionId |-> id, chatId |-> chatId, projectId |-> projectId,
     chatUrl |-> chatUrl, repoUrl |-> repoUrl,
     latestVersionId |-> Undefined, deploymentUrl |-> chatUrl,
     createdAt |-> now, updatedAt |-> now]

SessionRecord(id, chatId, projectId, chatUrl, repoUrl, now) ==
    [linearSessionId |-> id, chatId |-> chatId, projectId |-> projectId,
     chatUrl |-> chatUrl, repoUrl |-> repoUrl,
     latestVersionId |-> Undefined, deploymentUrl |-> Undefined,
     createdAt |-> now, updatedAt |-> now]

\* a store that holds one record at a time
storeSessionAlone(store, id, chatId, projectId, chatUrl, repoUrl, now) ==
    [k \in {id} |-> SessionRecord(id, chatId, projectId, chatUrl, repoUrl, now)]

\* a store that merges the new fields into the record it finds
storeSessionMerging(store, id, chatId, projectId, chatUrl, repoUrl, now) ==
    [k \in DOMAIN store \cup {id} |->
        IF k # id THEN store[k]
        ELSE IF id \in DOMAIN store
        THEN [store[id] EXCEPT !.chatId = chatId, !.projectId = projectId,
                               !.chatUrl = chatUrl, !.repoUrl = repoUrl,
                               !.updatedAt = now]
        ELSE SessionRecord(id, chatId, projectId, chatUrl, repoUrl, now)]

\* a store that files the record under the chat id
storeSessionKeyedByChat(store, id, chatId, projectId, chatUrl, repoUrl, now) ==
    [k \in DOMAIN store \cup {chatId} |->
        IF k = chatId THEN SessionRecord(id, chatId, projectId, chatUrl, repoUrl, now)
        ELSE store[k]]

storeSession(store, id, chatId, projectId, chatUrl, repoUrl, now) ==
    [k \in DOMAIN store \cup {id} |->
        IF k = id THEN SessionRecord(id, chatId, projectId, chatUrl, repoUrl, now)
        ELSE store[k]]

\* a store that answers a missing id with a default object
getSessionOrDefault(store, id) ==
    IF id \in DOMAIN store THEN <<store[id]>>
    ELSE <<SessionRecord(id, Undefined, Undefined, Undefined, Undefined, 0)>>

\* the result is a sequence: empty when the Map has no entry (undefined)
getSession(store, id) == IF id \in DOMAIN store THEN <<store[id]>> ELSE <<>>

\* an update that keeps the given fields only
updateSessionReplacing(store, id, updates, now) ==
    IF id \in DOMAIN store
    THEN [store EXCEPT ![id] =
            [f \in DOMAIN store[id] |->
                IF f = "updatedAt" THEN now
                ELSE IF f \in DOMAIN updates THEN updates[f] ELSE Undefined]]
    ELSE store

\* an update that inserts the fields when the id has no record
updateSessionUpsert(store, id, updates, now) ==
    [k \in DOMAIN store \cup {id} |->
        IF k = id
        THEN [f \in DOMAIN SessionRecord(id, Undefined, Undefined, Undefined, Undefined, now) |->
                IF f = "updatedAt" THEN now
                ELSE IF f \in DOMAIN updates THEN updates[f]
                ELSE IF id \in DOMAIN store THEN store[id][f]
                ELSE SessionRecord(id, Undefined, Undefined, Undefined, Undefined, now)[f]]
        ELSE store[k]]

updateSession(store, id, updates, now) ==
    IF id \in DOMAIN store
    THEN [store EXCEPT ![id] =
            [f \in DOMAIN store[id] |->
                IF f = "updatedAt" THEN now
                ELSE IF f \in DOMAIN updates THEN updates[f] ELSE store[id][f]]]
    ELSE store

deleteSession(store, id) == [k \in DOMAIN store \ {id} |-> store[k]]

hasSession(store, id) == id \in DOMAIN store

\* ------------------------------------------------------------------- events
IssueOf(id, description, labels) ==
    [identifier |-> IssueIdentifier(id), description |-> description, labels |-> labels]

\* what a guidance.signals list may hold on a prompted event
SelectableUrls ==
    UNION {{formatRepoOptionsForSelect(l)[i].value : i \in 1..Len(l)} :
            l \in SuggestionLists}

SignalLists ==
    {<<>>, <<[key |-> "repository", value |-> ""]>>, <<[key |-> "branch", value |-> "main"]>>}
    \cup {<<[key |-> "repository", value |-> u]>> : u \in SelectableUrls}

\* shape: which of data, data.agentSession and agentSession.issue the payload has
Shapes == {"ok", "noData", "noAgentSession", "noIssue"}

Event(type, action, shape, id, description, labels, prompt, suggestions, signals) ==
    [type |-> type, action |-> action, shape |-> shape,
     agentSession |->
        [id |-> id, issue |-> IssueOf(id, description, labels),
         promptContext |-> prompt,
         issueRepositorySuggestions |-> suggestions,
         signals |-> signals]]

NoEvent == Event("", "", "noData", "S1", NoMatch, <<>>, <<>>, <<>>, <<>>)

MalformedEvents(action) ==
    {Event("AgentSessionEvent", action, "noData", "S1", NoMatch, <<>>, <<>>, <<>>, <<>>),
     Event("AgentSessionEvent", action, "noAgentSession", "S1", NoMatch, <<>>, <<>>, <<>>, <<>>)}
    \cup {Event("AgentSessionEvent", action, "noIssue", id, NoMatch, <<>>, <<>>, <<>>, <<>>) :
            id \in Ids}

\* the router passes the description to the resolver only, which reads it
\* after the suggestions: it varies with no suggestion and with one
DescribedSuggestionLists == {<<>>, <<SugNoUrl>>}

\* labels are read on the create-from-prompt path only, so they vary on the
\* events that reach it
CreatedEvents ==
    MalformedEvents("created")
    \cup {Event("AgentSessionEvent", "created", "ok", id, NoMatch, <<>>, PromptRefine, s, <<>>) :
            id \in Ids, s \in SuggestionLists}
    \cup {Event("AgentSessionEvent", "created", "ok", id, d, <<>>, PromptRefine, s, <<>>) :
            id \in Ids, d \in Descriptions, s \in DescribedSuggestionLists}
    \cup {Event("AgentSessionEvent", "created", "ok", id, NoMatch, l, PromptRefine, <<>>, <<>>) :
            id \in Ids, l \in LabelLists}

\* a selection is handled before the prompt text is read, and a signal
\* list without one is skipped: the text varies on the events without signals
PromptedEvents ==
    MalformedEvents("prompted")
    \cup {Event("AgentSessionEvent", "prompted", "ok", id, NoMatch, <<>>, m, <<>>, <<>>) :
            id \in Ids, m \in Prompts}
    \cup {Event("AgentSessionEvent", "prompted", "ok", id, NoMatch, <<>>, PromptDeploy,
                 <<>>, g) :
            id \in Ids, g \in SignalLists}

IgnoredEvents ==
    {Event("Issue", "created", "ok", "S1", NoMatch, <<>>, <<>>, <<>>, <<>>),
     Event("AgentSessionEvent", "removed", "ok", "S1", NoMatch, <<>>, <<>>, <<>>, <<>>)}

\* -------------------------------------------------------------------- state
VARIABLES
    hasToken,        \* process.env.LINEAR_ACCESS_TOKEN is set
    sessionStore,    \* session-store.js: tracker session id -> session data
    v0SessionStore,  \* v0.js: chat id -> chat data
    projects,        \* the generation service's projects, in creation order
    externalUrls,    \* tracker side: the links last published for each session
    serial,          \* ids issued so far by the external services
    clock,           \* the time new Date() returns
    received,        \* events delivered so far
    pc,              \* per invocation: the await it is suspended at
    ev,              \* per invocation: the payload
    loc,             \* per invocation: its local variables
    trace,           \* per invocation: the calls and store writes it has made
    result           \* per invocation: what its promise settled to

vars == <<hasToken, sessionStore, v0SessionStore, projects, externalUrls, serial,
          clock, received, pc, ev, loc, trace, result>>

world == <<sessionStore, v0SessionStore, projects, externalUrls, serial, clock>>

NoLocals ==
    [planSteps |-> <<>>, repoUrl |-> Null, needsSelection |-> FALSE,
     projectId |-> Undefined, chatId |-> Undefined, chatUrl |-> Undefined,
     session |-> <<>>, message |-> <<>>, deploymentUrl |-> Undefined,
     error |-> Undefined, swallowed |-> FALSE]

NoResult ==
    [state |-> "pending", success |-> FALSE, message |-> "", chatId |-> Undefined,
     deploymentUrl |-> Undefined, awaitingSelection |-> FALSE]

Returned(success, message) ==
    [NoResult EXCEPT !.state = "returned", !.success = success, !.message = message]

Rejected(message) == [NoResult EXCEPT !.state = "rejected", !.message = message]

Init ==
    /\ hasToken \in BOOLEAN
    /\ sessionStore = <<>>
    /\ v0SessionStore = <<>>
    /\ projects = <<>>
    /\ externalUrls = [id \in Ids |-> <<>>]
    /\ serial = 0
    /\ clock = 0
    /\ received = 0
    /\ pc = [p \in Procs |-> "idle"]
    /\ ev = [p \in Procs |-> NoEvent]
    /\ loc = [p \in Procs |-> NoLocals]
    /\ trace = [p \in Procs |-> <<>>]
    /\ result = [p \in Procs |-> NoResult]

\* ------------------------------------------------------- calls and effects
\* one entry of an invocation's trace: an outbound call or a store write
Call(op, sid, a, b, c, list) ==
    [op |-> op, sid |-> sid, a |-> a, b |-> b, c |-> c, list |-> list]

\* linearClient.createAgentActivity({ agentSessionId, content: { type, ... } })
Activity(sid, type, text) == Call("createAgentActivity", sid, type, text, "", <<>>)

\* createAgentPlan / updateAgentPlan: a createAgentActivity of type plan
PlanActivity(sid, steps) ==
    Call("createAgentActivity", sid, "plan", "UI Generation Plan", "", steps)

Elicitation(sid, options) ==
    Call("createAgentActivity", sid, "elicitation", "repository", "", options)

\* an updateAgentSession that publishes no link
UpdateLinksWithout(sid, urls) == Call("updateAgentSession", sid, "", "", "", <<>>)

\* linearClient.updateAgentSession({ id, externalUrls })
UpdateLinks(sid, urls) == Call("updateAgentSession", sid, "", "", "", urls)

Link(label, url) == [label |-> label, url |-> url]

StoreWrite(op, sid, chatId, field, value) == Call(op, sid, chatId, field, value, <<>>)

\* values the external services issue
ChatId(n) == "chat-" \o ToString(n)
ChatUrl(chatId) == "https://v0.dev/chat/" \o chatId
VersionId(n) == "ver-" \o ToString(n)
ProjectId(n) == "prj-" \o ToString(n)
DeploymentUrl(n) == "https://dpl-" \o ToString(n) \o ".vercel.app"

\* error.message of a rejected external call
FailureOf(op) == op \o " failed"

ErrorText(action, message) ==
    IF action = "created" THEN "Failed to create V0 session: " \o message
    ELSE "Error: " \o message

ThoughtText(action) ==
    IF action = "created" THEN "Analyzing UI requirements and detecting repository..."
    ELSE "Processing your feedback..."

\* the invocation moves to its next await, having made the calls given
Goto(p, next, locals, calls) ==
    /\ pc' = [pc EXCEPT ![p] = next]
    /\ loc' = [loc EXCEPT ![p] = locals]
    /\ trace' = [trace EXCEPT ![p] = @ \o calls]
    /\ UNCHANGED <<hasToken, received, ev, result>>

\* the invocation's promise settles
Settle(p, res, calls) ==
    /\ pc' = [pc EXCEPT ![p] = "done"]
    /\ result' = [result EXCEPT ![p] = res]
    /\ trace' = [trace EXCEPT ![p] = @ \o calls]
    /\ UNCHANGED <<hasToken, received, ev, loc>>

\* a catch block that removes the event's Session before it reports
CatchDeleting(p, message) ==
    /\ Goto(p, "error", [loc[p] EXCEPT !.error = message],
            <<Activity(ev[p].agentSession.id, "error",
                       ErrorText(ev[p].action, message))>>)
    /\ sessionStore' = [k \in DOMAIN sessionStore \ {ev[p].agentSession.id} |->
                            sessionStore[k]]
    /\ UNCHANGED <<v0SessionStore, projects, externalUrls, serial, clock>>

\* a catch block that issues the failed call again instead of reporting it
CatchRetrying(p, message) ==
    /\ Goto(p, pc[p], loc[p], <<trace[p][Len(trace[p])]>>)
    /\ UNCHANGED world

\* the catch block: one guarded attempt to emit an error activity
Catch(p, message) ==
    /\ Goto(p, "error", [loc[p] EXCEPT !.error = message],
            <<Activity(ev[p].agentSession.id, "error",
                       ErrorText(ev[p].action, message))>>)
    /\ UNCHANGED world

\* a handler that stores a Session before it reports the rejected call
RejectsPersisting(p, op) ==
    LET sid == ev[p].agentSession.id
    IN  /\ Goto(p, "error", [loc[p] EXCEPT !.error = FailureOf(op)],
                <<StoreWrite("storeSession", sid, Undefined, "repoUrl", loc[p].repoUrl),
                  Activity(sid, "error", ErrorText(ev[p].action, FailureOf(op)))>>)
        /\ sessionStore' = storeSession(sessionStore, sid, Undefined, loc[p].projectId,
                                        Undefined, loc[p].repoUrl, clock)
        /\ UNCHANGED <<v0SessionStore, projects, externalUrls, serial, clock>>

\* the awaited call rejects
Rejects(p, op) == Catch(p, FailureOf(op))

\* --------------------------------------------------- handleLinearWebhook
\* a dispatcher whose default branch acknowledges before it ignores
IgnoreEventAcknowledged(p) ==
    /\ pc[p] = "idle"
    /\ received < MaxEvents
    /\ \E e \in IgnoredEvents :
        /\ ev' = [ev EXCEPT ![p] = e]
        /\ received' = received + 1
        /\ pc' = [pc EXCEPT ![p] = "done"]
        /\ result' = [result EXCEPT ![p] = Returned(TRUE, "Event ignored")]
        /\ trace' = [trace EXCEPT ![p] =
                        <<Activity(e.agentSession.id, "thought", "Event ignored")>>]
    /\ UNCHANGED <<hasToken, loc, world>>

\* the dispatcher's default branch
IgnoreEvent(p) ==
    /\ pc[p] = "idle"
    /\ received < MaxEvents
    /\ \E e \in IgnoredEvents :
        /\ ev' = [ev EXCEPT ![p] = e]
        /\ received' = received + 1
        /\ pc' = [pc EXCEPT ![p] = "done"]
        /\ result' = [result EXCEPT ![p] = Returned(TRUE, "Event ignored")]
    /\ UNCHANGED <<hasToken, loc, trace, world>>

\* a handler that forgets its acknowledgment
AcknowledgeMissing(e) == <<>>

\* a handler that goes on to its next call without awaiting the acknowledgment
AcknowledgeUnawaited(e) ==
    <<Activity(e.agentSession.id, "thought", ThoughtText(e.action)),
      Call("projects.find", e.agentSession.id, "", "", "", <<>>)>>

\* the first call of either handler: the acknowledgment
Acknowledge(e) == <<Activity(e.agentSession.id, "thought", ThoughtText(e.action))>>

\* a guard that answers a missing agentSession like an unrecognised event
MissingAgentSessionIgnored == Returned(TRUE, "Event ignored")

\* what either handler returns when data has no agentSession
MissingAgentSession == Returned(FALSE, "Missing agentSession data")

\* the synchronous prefix of either handler, up to its first await
HandlerEntry(p, e, next) ==
    /\ pc[p] = "idle"
    /\ received < MaxEvents
    /\ ev' = [ev EXCEPT ![p] = e]
    /\ received' = received + 1
    /\ UNCHANGED <<hasToken, loc, world>>
    /\ IF e.shape = "noData"
       THEN \* destructuring undefined throws outside the try block
            /\ pc' = [pc EXCEPT ![p] = "done"]
            /\ result' = [result EXCEPT ![p] = Rejected("TypeError")]
            /\ UNCHANGED trace
       ELSE IF e.shape = "noAgentSession"
       THEN /\ pc' = [pc EXCEPT ![p] = "done"]
            /\ result' = [result EXCEPT ![p] = MissingAgentSession]
            /\ UNCHANGED trace
       ELSE IF e.shape = "noIssue"
       THEN \* issue.identifier is read for the log line, outside the try block
            /\ pc' = [pc EXCEPT ![p] = "done"]
            /\ result' = [result EXCEPT ![p] = Rejected("TypeError")]
            /\ UNCHANGED trace
       ELSE IF ~hasToken
       THEN \* getAgentLinearClient throws in the try block and again in the catch block
            /\ pc' = [pc EXCEPT ![p] = "done"]
            /\ result' = [result EXCEPT ![p] = Returned(FALSE, "LINEAR_ACCESS_TOKEN not set")]
            /\ UNCHANGED trace
       ELSE /\ pc' = [pc EXCEPT ![p] = next]
            /\ trace' = [trace EXCEPT ![p] = Acknowledge(e)]
            /\ UNCHANGED result

CreatedEntry(p) == \E e \in CreatedEvents : HandlerEntry(p, e, "c_thought")

PromptedEntry(p) == \E e \in PromptedEvents : HandlerEntry(p, e, "p_thought")

\* the caller has the settled promise; the slot is free again
Return(p) ==
    /\ pc[p] = "done"
    /\ pc' = [pc EXCEPT ![p] = "idle"]
    /\ ev' = [ev EXCEPT ![p] = NoEvent]
    /\ loc' = [loc EXCEPT ![p] = NoLocals]
    /\ trace' = [trace EXCEPT ![p] = <<>>]
    /\ result' = [result EXCEPT ![p] = NoResult]
    /\ UNCHANGED <<hasToken, received, world>>

\* a catch block that lets the failure of its own error activity escape
ErrorEscapes(p) ==
    /\ pc' = [pc EXCEPT ![p] = "done"]
    /\ result' = [result EXCEPT ![p] = Rejected(FailureOf("createAgentActivity"))]
    /\ loc' = [loc EXCEPT ![p].swallowed = TRUE]
    /\ UNCHANGED <<hasToken, received, ev, trace>>

\* the inner catch: the failure of the error activity is logged, nothing else
ErrorSwallowed(p) ==
    /\ pc' = [pc EXCEPT ![p] = "done"]
    /\ result' = [result EXCEPT ![p] = Returned(FALSE, loc[p].error)]
    /\ loc' = [loc EXCEPT ![p].swallowed = TRUE]
    /\ UNCHANGED <<hasToken, received, ev, trace>>

\* the error activity of the catch block settles: emitted, or rejected and
\* swallowed; the handler returns the first failure either way
ErrorSettled(p) ==
    /\ pc[p] = "error"
    /\ \/ Settle(p, Returned(FALSE, loc[p].error), <<>>)
       \/ ErrorSwallowed(p)
    /\ UNCHANGED world

\* ------------------------------------------------- createOrFindProject
\* projects.find(p => p.name === name) on the list v0.projects.find() returned
FindProject(list, name) ==
    IF \E i \in 1..Len(list) : list[i].name = name
    THEN <<list[CHOOSE i \in 1..Len(list) :
                /\ list[i].name = name
                /\ \A j \in 1..(i - 1) : list[j].name # name]>>
    ELSE <<>>

\* ---------------------------------------------- handleAgentSessionCreated
\* thinking: model === 'max', as the trace records it
Thinking(model) == IF model = "max" THEN "thinking" ELSE ""

\* a handler that creates from the prompt whatever the resolver returned
CreatedInitializeFromPrompt(p, projectId) ==
    LET sid == ev[p].agentSession.id
        issue == ev[p].agentSession.issue
        model == getModelTier(extractComplexityFromLabels(issue.labels))
    IN  Goto(p, "c_create",
             [loc[p] EXCEPT !.projectId = projectId],
             <<Call("chats.create", sid, projectId, model, Thinking(model), <<>>)>>)

\* after the project is known: import the repository or create from the prompt
CreatedInitialize(p, projectId) ==
    LET sid == ev[p].agentSession.id
        issue == ev[p].agentSession.issue
        model == getModelTier(extractComplexityFromLabels(issue.labels))
    IN  IF Truthy(loc[p].repoUrl)
        THEN Goto(p, "c_plan2",
                  [loc[p] EXCEPT !.projectId = projectId,
                                 !.planSteps = markStepCurrent(@, 1)],
                  <<PlanActivity(sid, markStepCurrent(loc[p].planSteps, 1))>>)
        ELSE Goto(p, "c_create",
                  [loc[p] EXCEPT !.projectId = projectId],
                  <<Call("chats.create", sid, projectId, model, Thinking(model), <<>>)>>)

\* the thought activity settled: detect the repository and emit the plan
CreatedThought(p) ==
    /\ pc[p] = "c_thought"
    /\ \/ LET a == ev[p].agentSession
              repoDetection == detectRepository(a)
              needsSelection == needsRepositorySelection(a)
              planSteps == generateUIGenerationPlan(Truthy(repoDetection.repoUrl),
                                                    needsSelection)
          IN  /\ Goto(p, "c_plan",
                      [loc[p] EXCEPT !.repoUrl = repoDetection.repoUrl,
                                     !.needsSelection = needsSelection,
                                     !.planSteps = planSteps],
                      <<PlanActivity(a.id, planSteps)>>)
              /\ UNCHANGED world
       \/ Rejects(p, "createAgentActivity")

\* the plan activity settled: ask for a selection or look the project up
CreatedPlan(p) ==
    /\ pc[p] = "c_plan"
    /\ \/ LET a == ev[p].agentSession
          IN  /\ IF loc[p].needsSelection
                 THEN Goto(p, "c_elicit", loc[p],
                           <<Elicitation(a.id,
                                formatRepoOptionsForSelect(
                                    detectRepository(a).suggestions))>>)
                 ELSE Goto(p, "c_find", loc[p],
                           <<Call("projects.find", a.id, "", "", "", <<>>)>>)
              /\ UNCHANGED world
       \/ Rejects(p, "createAgentActivity")

\* the elicitation settled: the flow suspends until the user selects
CreatedElicitation(p) ==
    /\ pc[p] = "c_elicit"
    /\ \/ /\ Settle(p, [Returned(TRUE, "Waiting for repository selection")
                            EXCEPT !.awaitingSelection = TRUE], <<>>)
          /\ UNCHANGED world
       \/ Rejects(p, "createAgentActivity")

\* v0.projects.find() settled
CreatedFind(p) ==
    /\ pc[p] = "c_find"
    /\ \/ LET name == generateProjectName(ev[p].agentSession.issue)
              existing == FindProject(projects, name)
          IN  /\ IF existing # <<>>
                 THEN CreatedInitialize(p, existing[1].id)
                 ELSE Goto(p, "c_mkproj", loc[p],
                           <<Call("projects.create", ev[p].agentSession.id,
                                  name, "", "", <<>>)>>)
              /\ UNCHANGED world
       \/ Rejects(p, "projects.find")

\* v0.projects.create() settled
CreatedProject(p) ==
    /\ pc[p] = "c_mkproj"
    /\ \/ /\ serial' = serial + 1
          /\ projects' = Append(projects,
                [id |-> ProjectId(serial + 1),
                 name |-> generateProjectName(ev[p].agentSession.issue)])
          /\ CreatedInitialize(p, ProjectId(serial + 1))
          /\ UNCHANGED <<sessionStore, v0SessionStore, externalUrls, clock>>
       \/ Rejects(p, "projects.create")

\* the plan update before the import settled: call initFromRepo
CreatedImportPlan(p) ==
    /\ pc[p] = "c_plan2"
    /\ \/ /\ Goto(p, "c_init", loc[p],
                  <<Call("chats.init", ev[p].agentSession.id, loc[p].repoUrl,
                         loc[p].projectId, "", <<>>)>>)
          /\ UNCHANGED world
       \/ Rejects(p, "createAgentActivity")

\* the chat exists: v0.js records it, the handler stores the session and
\* updates the plan
CreatedChat(p, planBefore) ==
    LET sid == ev[p].agentSession.id
        chatId == ChatId(serial + 1)
        genIndex == IF Truthy(loc[p].repoUrl) THEN 2 ELSE 1
        planSteps == markStepCurrent(planBefore, genIndex)
    IN  /\ serial' = serial + 1
        /\ v0SessionStore' =
              [k \in DOMAIN v0SessionStore \cup {chatId} |->
                  IF k = chatId
                  THEN [chatId |-> chatId,
                        projectId |-> loc[p].projectId,
                        latestVersionId |-> VersionId(serial + 1)]
                  ELSE v0SessionStore[k]]
        /\ sessionStore' = storeSession(sessionStore, sid, chatId, loc[p].projectId,
                                        ChatUrl(chatId), loc[p].repoUrl, clock)
        /\ clock' = clock + 1
        /\ Goto(p, "c_plan3",
                [loc[p] EXCEPT !.chatId = chatId, !.chatUrl = ChatUrl(chatId),
                               !.planSteps = planSteps],
                <<StoreWrite("storeSession", sid, chatId, "repoUrl", loc[p].repoUrl),
                  PlanActivity(sid, planSteps)>>)
        /\ UNCHANGED <<projects, externalUrls>>

\* initFromRepo settled
CreatedInit(p) ==
    /\ pc[p] = "c_init"
    /\ \/ CreatedChat(p, markStepCompleted(loc[p].planSteps, 1))
       \/ Rejects(p, "chats.init")

\* createV0Session settled
CreatedCreate(p) ==
    /\ pc[p] = "c_create"
    /\ \/ CreatedChat(p, loc[p].planSteps)
       \/ Rejects(p, "chats.create")

\* the plan update after generation settled: publish the chat link
CreatedGenerationPlan(p) ==
    /\ pc[p] = "c_plan3"
    /\ \/ /\ Goto(p, "c_links", loc[p],
                  <<UpdateLinks(ev[p].agentSession.id,
                                <<Link("V0 Chat", loc[p].chatUrl)>>)>>)
          /\ UNCHANGED world
       \/ Rejects(p, "createAgentActivity")

\* updateAgentSession settled: emit the completion message
CreatedLinks(p) ==
    /\ pc[p] = "c_links"
    /\ \/ /\ externalUrls' = [externalUrls EXCEPT ![ev[p].agentSession.id] =
                                <<Link("V0 Chat", loc[p].chatUrl)>>]
          /\ Goto(p, "c_msg", loc[p],
                  <<Activity(ev[p].agentSession.id, "message", loc[p].chatUrl)>>)
          /\ UNCHANGED <<sessionStore, v0SessionStore, projects, serial, clock>>
       \/ Rejects(p, "updateAgentSession")

\* the completion message settled
CreatedMessage(p) ==
    /\ pc[p] = "c_msg"
    /\ \/ /\ Settle(p, [Returned(TRUE, "Agent session started")
                            EXCEPT !.chatId = loc[p].chatId], <<>>)
          /\ UNCHANGED world
       \/ Rejects(p, "createAgentActivity")

\* --------------------------------------------- handleAgentSessionPrompted
\* guidance.signals.find(s => s.key === 'repository'), as a sequence of 0 or 1
RepoSignal(signals) ==
    IF \E i \in 1..Len(signals) : signals[i].key = "repository"
    THEN <<signals[CHOOSE i \in 1..Len(signals) :
                /\ signals[i].key = "repository"
                /\ \A j \in 1..(i - 1) : signals[j].key # "repository"]>>
    ELSE <<>>

\* a handler that tests repoSignal instead of repoSignal?.value
HasRepoSignal(agentSession) == RepoSignal(agentSession.signals) # <<>>

\* a handler without the selection branch
HasRepoSelectionNever(agentSession) == FALSE

\* repoSignal?.value is truthy
HasRepoSelection(agentSession) ==
    /\ RepoSignal(agentSession.signals) # <<>>
    /\ Truthy(RepoSignal(agentSession.signals)[1].value)

\* a handler that takes the repository from the resolver, as the created
\* handler does, instead of from the signal
SelectedRepoUrlDetected(agentSession) == detectRepository(agentSession).repoUrl

\* repoSignal.value
SelectedRepoUrl(agentSession) == RepoSignal(agentSession.signals)[1].value

\* the path taken once the thought activity has settled
PromptedDispatch(p) ==
    LET a == ev[p].agentSession
        session == getSession(sessionStore, a.id)
        message == a.promptContext
    IN  IF HasRepoSelection(a)
        THEN Goto(p, "p_find",
                  [loc[p] EXCEPT !.repoUrl = SelectedRepoUrl(a)],
                  <<Call("projects.find", a.id, "", "", "", <<>>)>>)
        ELSE IF session = <<>>
        THEN Goto(p, "p_nosession", [loc[p] EXCEPT !.session = session],
                  <<Activity(a.id, "error",
                        "No active V0 session found. Please delegate the issue again.")>>)
        ELSE IF isDeployCommand(message)
        THEN Goto(p, "p_deploying",
                  [loc[p] EXCEPT !.session = session, !.message = message],
                  <<Activity(a.id, "action", "Deploying to Vercel...")>>)
        ELSE Goto(p, "p_applying",
                  [loc[p] EXCEPT !.session = session, !.message = message],
                  <<Activity(a.id, "action", "Applying your feedback...")>>)

PromptedThought(p) ==
    /\ pc[p] = "p_thought"
    /\ \/ PromptedDispatch(p) /\ UNCHANGED world
       \/ Rejects(p, "createAgentActivity")

\* the project is known: call initFromRepo with the selected repository
PromptedInitialize(p, projectId) ==
    Goto(p, "p_init", [loc[p] EXCEPT !.projectId = projectId],
         <<Call("chats.init", ev[p].agentSession.id, loc[p].repoUrl, projectId,
                "", <<>>)>>)

PromptedFind(p) ==
    /\ pc[p] = "p_find"
    /\ \/ LET name == generateProjectName(ev[p].agentSession.issue)
              existing == FindProject(projects, name)
          IN  /\ IF existing # <<>>
                 THEN PromptedInitialize(p, existing[1].id)
                 ELSE Goto(p, "p_mkproj", loc[p],
                           <<Call("projects.create", ev[p].agentSession.id,
                                  name, "", "", <<>>)>>)
              /\ UNCHANGED world
       \/ Rejects(p, "projects.find")

PromptedProject(p) ==
    /\ pc[p] = "p_mkproj"
    /\ \/ /\ serial' = serial + 1
          /\ projects' = Append(projects,
                [id |-> ProjectId(serial + 1),
                 name |-> generateProjectName(ev[p].agentSession.issue)])
          /\ PromptedInitialize(p, ProjectId(serial + 1))
          /\ UNCHANGED <<sessionStore, v0SessionStore, externalUrls, clock>>
       \/ Rejects(p, "projects.create")

\* initFromRepo settled: store the session and publish the chat link
PromptedSelected(p) ==
    LET sid == ev[p].agentSession.id
        chatId == ChatId(serial + 1)
    IN  /\ serial' = serial + 1
        /\ v0SessionStore' =
              [k \in DOMAIN v0SessionStore \cup {chatId} |->
                  IF k = chatId
                  THEN [chatId |-> chatId,
                        projectId |-> loc[p].projectId,
                        latestVersionId |-> VersionId(serial + 1)]
                  ELSE v0SessionStore[k]]
        /\ sessionStore' = storeSession(sessionStore, sid, chatId, loc[p].projectId,
                                        ChatUrl(chatId), loc[p].repoUrl, clock)
        /\ clock' = clock + 1
        /\ Goto(p, "p_links",
                [loc[p] EXCEPT !.chatId = chatId, !.chatUrl = ChatUrl(chatId)],
                <<StoreWrite("storeSession", sid, chatId, "repoUrl", loc[p].repoUrl),
                  UpdateLinks(sid, <<Link("V0 Chat", ChatUrl(chatId))>>)>>)
        /\ UNCHANGED <<projects, externalUrls>>

PromptedInit(p) ==
    /\ pc[p] = "p_init"
    /\ \/ PromptedSelected(p)
       \/ Rejects(p, "chats.init")

PromptedLinks(p) ==
    /\ pc[p] = "p_links"
    /\ \/ /\ externalUrls' = [externalUrls EXCEPT ![ev[p].agentSession.id] =
                                <<Link("V0 Chat", loc[p].chatUrl)>>]
          /\ Goto(p, "p_msg", loc[p],
                  <<Activity(ev[p].agentSession.id, "message", loc[p].chatUrl)>>)
          /\ UNCHANGED <<sessionStore, v0SessionStore, projects, serial, clock>>
       \/ Rejects(p, "updateAgentSession")

PromptedMessage(p) ==
    /\ pc[p] = "p_msg"
    /\ \/ /\ Settle(p, [Returned(TRUE, "Repository selected and initialized")
                            EXCEPT !.chatId = loc[p].chatId], <<>>)
          /\ UNCHANGED world
       \/ Rejects(p, "createAgentActivity")

\* the 'no active session' error activity settled
PromptedNoSession(p) ==
    /\ pc[p] = "p_nosession"
    /\ \/ Settle(p, Returned(FALSE, "No session found"), <<>>) /\ UNCHANGED world
       \/ Rejects(p, "createAgentActivity")

\* a || b on two optional strings
OrElse(a, b) == IF Truthy(a) THEN a ELSE b

\* a deployToVercel that passes the chat id and the project id the wrong way round
DeployCallSwapped(sid, chatId, projectId, versionId, store) ==
    Call("deployments.create", sid, chatId, projectId,
         OrElse(versionId, IF chatId \in DOMAIN store THEN store[chatId].latestVersionId
                           ELSE Undefined),
         <<>>)

\* a deployToVercel without the fallback to the stored version
DeployCallNoVersion(sid, chatId, projectId, versionId, store) ==
    Call("deployments.create", sid,
         OrElse(projectId, IF chatId \in DOMAIN store THEN store[chatId].projectId
                           ELSE Undefined),
         chatId, versionId, <<>>)

\* the arguments deployToVercel hands to v0.deployments.create
DeployCall(sid, chatId, projectId, versionId, store) ==
    Call("deployments.create", sid,
         OrElse(projectId, IF chatId \in DOMAIN store THEN store[chatId].projectId
                           ELSE Undefined),
         chatId,
         OrElse(versionId, IF chatId \in DOMAIN store THEN store[chatId].latestVersionId
                           ELSE Undefined),
         <<>>)

\* the 'Deploying...' activity settled: call deployToVercel
PromptedDeploying(p) ==
    /\ pc[p] = "p_deploying"
    /\ \/ /\ Goto(p, "p_deploy", loc[p],
                  <<DeployCall(ev[p].agentSession.id, loc[p].session[1].chatId,
                               loc[p].session[1].projectId, Undefined,
                               v0SessionStore)>>)
          /\ UNCHANGED world
       \/ Rejects(p, "createAgentActivity")

\* a deploy that publishes the deployment link alone
DeployLinksOnly(session, deploymentUrl) ==
    <<Link("Vercel Deployment", deploymentUrl)>>

\* the links published after a deploy
DeployLinks(session, deploymentUrl) ==
    <<Link("V0 Chat", session.chatUrl), Link("Vercel Deployment", deploymentUrl)>>

\* v0.deployments.create settled
PromptedDeploy(p) ==
    /\ pc[p] = "p_deploy"
    /\ \/ LET sid == ev[p].agentSession.id
              url == DeploymentUrl(serial + 1)
          IN  /\ serial' = serial + 1
              /\ sessionStore' = updateSession(sessionStore, sid,
                                               [deploymentUrl |-> url], clock)
              /\ clock' = clock + 1
              /\ Goto(p, "p_dlinks", [loc[p] EXCEPT !.deploymentUrl = url],
                      <<StoreWrite("updateSession", sid, loc[p].session[1].chatId,
                                   "deploymentUrl", url),
                        UpdateLinks(sid, DeployLinks(loc[p].session[1], url))>>)
              /\ UNCHANGED <<v0SessionStore, projects, externalUrls>>
       \/ Rejects(p, "deployments.create")

PromptedDeployLinks(p) ==
    /\ pc[p] = "p_dlinks"
    /\ \/ /\ externalUrls' = [externalUrls EXCEPT ![ev[p].agentSession.id] =
                                DeployLinks(loc[p].session[1], loc[p].deploymentUrl)]
          /\ Goto(p, "p_dmsg", loc[p],
                  <<Activity(ev[p].agentSession.id, "message", loc[p].deploymentUrl)>>)
          /\ UNCHANGED <<sessionStore, v0SessionStore, projects, serial, clock>>
       \/ Rejects(p, "updateAgentSession")

PromptedDeployMessage(p) ==
    /\ pc[p] = "p_dmsg"
    /\ \/ /\ Settle(p, [Returned(TRUE, "Deployed to Vercel")
                            EXCEPT !.deploymentUrl = loc[p].deploymentUrl], <<>>)
          /\ UNCHANGED world
       \/ Rejects(p, "createAgentActivity")

\* a continueV0Session that sends the chat id without the message
ContinueCallNoMessage(sid, chatId, message) ==
    Call("chats.sendMessage", sid, chatId, "", "", <<>>)

\* the arguments continueV0Session hands to v0.chats.sendMessage
ContinueCall(sid, chatId, message) ==
    Call("chats.sendMessage", sid, chatId, "", "", message)

\* the 'Applying...' activity settled: call continueV0Session
PromptedApplying(p) ==
    /\ pc[p] = "p_applying"
    /\ \/ /\ Goto(p, "p_continue", loc[p],
                  <<ContinueCall(ev[p].agentSession.id, loc[p].session[1].chatId,
                                 loc[p].message)>>)
          /\ UNCHANGED world
       \/ Rejects(p, "createAgentActivity")

\* v0.chats.sendMessage settled
PromptedContinue(p) ==
    /\ pc[p] = "p_continue"
    /\ \/ LET sid == ev[p].agentSession.id
              chatId == loc[p].session[1].chatId
              version == VersionId(serial + 1)
          IN  /\ serial' = serial + 1
              /\ v0SessionStore' =
                    IF chatId \in DOMAIN v0SessionStore
                    THEN [v0SessionStore EXCEPT ![chatId].latestVersionId = version]
                    ELSE v0SessionStore
              /\ sessionStore' = updateSession(sessionStore, sid,
                                               [latestVersionId |-> version], clock)
              /\ clock' = clock + 1
              /\ Goto(p, "p_cmsg", loc[p],
                      <<StoreWrite("updateSession", sid, chatId,
                                   "latestVersionId", version),
                        Activity(sid, "message", loc[p].session[1].chatUrl)>>)
              /\ UNCHANGED <<projects, externalUrls>>
       \/ Rejects(p, "chats.sendMessage")

PromptedContinueMessage(p) ==
    /\ pc[p] = "p_cmsg"
    /\ \/ /\ Settle(p, [Returned(TRUE, "Feedback applied")
                            EXCEPT !.chatId = loc[p].session[1].chatId], <<>>)
          /\ UNCHANGED world
       \/ Rejects(p, "createAgentActivity")

\* ------------------------------------------------------------ specification
\* one invocation is handled at a time: the next event is delivered once the
\* previous one has been answered
Next ==
    \E p \in Procs :
        \/ IgnoreEvent(p)
        \/ CreatedEntry(p)
        \/ PromptedEntry(p)
        \/ Return(p)
        \/ ErrorSettled(p)
        \/ CreatedThought(p)
        \/ CreatedPlan(p)
        \/ CreatedElicitation(p)
        \/ CreatedFind(p)
        \/ CreatedProject(p)
        \/ CreatedImportPlan(p)
        \/ CreatedInit(p)
        \/ CreatedCreate(p)
        \/ CreatedGenerationPlan(p)
        \/ CreatedLinks(p)
        \/ CreatedMessage(p)
        \/ PromptedThought(p)
        \/ PromptedFind(p)
        \/ PromptedProject(p)
        \/ PromptedInit(p)
        \/ PromptedLinks(p)
        \/ PromptedMessage(p)
        \/ PromptedNoSession(p)
        \/ PromptedDeploying(p)
        \/ PromptedDeploy(p)
        \/ PromptedDeployLinks(p)
        \/ PromptedDeployMessage(p)
        \/ PromptedApplying(p)
        \/ PromptedContinue(p)
        \/ PromptedContinueMessage(p)

Spec == Init /\ [][Next]_vars

\* ------------------------------------------------- the library on its own
\* the exported functions of the resolver, the plan helpers and the session
\* store, called directly: pc stays idle.  The resolver and the plan helpers
\* are stateless (LibrarySpec): trace[p] holds the last call with what it
\* returned, loc[p].planSteps the plan being worked on.  The session store is
\* the one shared Map (StoreSpec): trace[p] holds the calls made so far.
BoolText(b) == IF b THEN "true" ELSE "false"

\* the agentSession objects handed to the resolver
ResolverEvents ==
    {Event("AgentSessionEvent", "created", "ok", id, d, <<>>, PromptRefine, s, <<>>) :
        id \in Ids, d \in Descriptions, s \in SuggestionLists}

\* prompt texts handed to the deploy test
TextDeploy == <<"d", "e", "p", "l", "o", "y">>
TextUpper == <<"D", "E", "P", "L", "O", "Y", " ", "n", "o", "w">>
TextRedeploy == <<"r", "e", "d", "e", "p", "l", "o", "y">>
TextDeployment == <<"d", "e", "p", "l", "o", "y", "m", "e", "n", "t", ".">>
TextBoth == <<"r", "e", "d", "e", "p", "l", "o", "y", " ", "t", "h", "e", " ", "s", "t", "y", "l", "i", "n", "g", ",", " ", "d", "o", "n", "'", "t", " ", "d", "e", "p", "l", "o", "y", " ", "y", "e", "t">>
TextUnderscore == <<"d", "e", "p", "l", "o", "y", "_", "n", "o", "w">>
TextHyphen == <<"r", "e", "-", "d", "e", "p", "l", "o", "y">>
ClassifierTexts ==
    Prompts \cup {TextDeploy, TextUpper, TextRedeploy, TextDeployment, TextBoth, TextUnderscore, TextHyphen}

\* the partial records handed to updateSession
SessionUpdates ==
    {[deploymentUrl |-> DeploymentUrl(1)], [latestVersionId |-> VersionId(1)]}

LibraryInit == Init /\ hasToken

LibraryCall(p, e, locals, call) ==
    /\ pc[p] = "idle"
    /\ ev' = [ev EXCEPT ![p] = e]
    /\ loc' = [loc EXCEPT ![p] = locals]
    /\ trace' = [trace EXCEPT ![p] = <<call>>]
    /\ UNCHANGED <<hasToken, received, pc, result, v0SessionStore, projects,
                   externalUrls, serial>>

Detect(p) ==
    \E e \in ResolverEvents :
        LET r == detectRepository(e.agentSession)
        IN  /\ LibraryCall(p, e,
                    [NoLocals EXCEPT !.repoUrl = r.repoUrl,
                                     !.needsSelection =
                                        needsRepositorySelection(e.agentSession)],
                    Call("detectRepository", e.agentSession.id, r.repoUrl, r.source,
                         "", r.suggestions))
            /\ UNCHANGED <<sessionStore, clock>>

BuildPlan(p) ==
    \E hasRepo \in BOOLEAN, needsSelection \in BOOLEAN :
        LET steps == generateUIGenerationPlan(hasRepo, needsSelection)
        IN  /\ LibraryCall(p, NoEvent, [NoLocals EXCEPT !.planSteps = steps],
                    Call("generateUIGenerationPlan", "", BoolText(hasRepo),
                         BoolText(needsSelection), "", steps))
            /\ UNCHANGED <<sessionStore, clock>>

\* one of the three mark helpers applied to the plan in hand
Mark(p, op, steps, index) ==
    /\ LibraryCall(p, NoEvent, [NoLocals EXCEPT !.planSteps = steps],
            Call(op, "", ToString(index), "", "", steps))
    /\ UNCHANGED <<sessionStore, clock>>

\* the indices a caller may pass: those of the plan, and the first one out
\* of range on either side
StepIndices(steps) == -1..Len(steps)

MarkCurrent(p) ==
    \E index \in StepIndices(loc[p].planSteps) :
        Mark(p, "markStepCurrent", markStepCurrent(loc[p].planSteps, index), index)

MarkCompleted(p) ==
    \E index \in StepIndices(loc[p].planSteps) :
        Mark(p, "markStepCompleted", markStepCompleted(loc[p].planSteps, index), index)

MarkFailed(p) ==
    \E index \in StepIndices(loc[p].planSteps) :
        Mark(p, "markStepFailed", markStepFailed(loc[p].planSteps, index), index)

\* the deploy test of the prompted handler applied to a text
Classify(p) ==
    \E message \in ClassifierTexts :
        /\ LibraryCall(p, NoEvent, [NoLocals EXCEPT !.message = message],
                Call("isDeployCommand", "", BoolText(isDeployCommand(message)),
                     "", "", message))
        /\ UNCHANGED <<sessionStore, clock>>

\* the complexity levels getModelTier is documented for
Complexities == 1..5

\* the model selection of the create-from-prompt branch for a complexity
SelectModel(p) ==
    \E complexity \in Complexities :
        LET model == getModelTier(complexity)
        IN  /\ LibraryCall(p, NoEvent, NoLocals,
                    Call("getModelTier", "", ToString(complexity), model,
                         Thinking(model), <<>>))
            /\ UNCHANGED <<sessionStore, clock>>

\* the select options for a payload's suggestions, next to what the
\* resolver returns for the same payload
FormatOptions(p) ==
    \E e \in ResolverEvents :
        LET r == detectRepository(e.agentSession)
        IN  /\ LibraryCall(p, e, [NoLocals EXCEPT !.repoUrl = r.repoUrl],
                    Call("formatRepoOptionsForSelect", e.agentSession.id, r.repoUrl,
                         "", "",
                         formatRepoOptionsForSelect(
                            e.agentSession.issueRepositorySuggestions)))
            /\ UNCHANGED <<sessionStore, clock>>

\* one call of a session-store function; time passes with every call
StoreCall(p, locals, call) ==
    /\ pc[p] = "idle"
    /\ Len(trace[p]) < MaxStoreCalls
    /\ loc' = [loc EXCEPT ![p] = locals]
    /\ trace' = [trace EXCEPT ![p] = Append(@, call)]
    /\ clock' = clock + 1
    /\ UNCHANGED <<hasToken, received, pc, ev, result, v0SessionStore, projects,
                   externalUrls, serial>>

StoreSession(p) ==
    \E id \in Ids :
        LET chatId == ChatId(clock + 1)
        IN  /\ sessionStore' = storeSession(sessionStore, id, chatId, ProjectId(1),
                                            ChatUrl(chatId), Null, clock)
            /\ StoreCall(p, NoLocals,
                    StoreWrite("storeSession", id, chatId, "repoUrl", Null))

UpdateSession(p) ==
    \E id \in Ids, updates \in SessionUpdates :
        /\ sessionStore' = updateSession(sessionStore, id, updates, clock)
        /\ StoreCall(p, NoLocals,
                StoreWrite("updateSession", id, "",
                           CHOOSE f \in DOMAIN updates : TRUE,
                           updates[CHOOSE f \in DOMAIN updates : TRUE]))

\* loc[p].session holds what the call returned
GetSession(p) ==
    \E id \in Ids :
        LET session == getSession(sessionStore, id)
        IN  /\ StoreCall(p, [NoLocals EXCEPT !.session = session],
                    Call("getSession", id,
                         IF session = <<>> THEN Undefined ELSE session[1].chatId,
                         "", "", <<>>))
            /\ UNCHANGED sessionStore

DeleteSession(p) ==
    \E id \in Ids :
        /\ sessionStore' = deleteSession(sessionStore, id)
        /\ StoreCall(p, NoLocals, Call("deleteSession", id, "", "", "", <<>>))

HasSession(p) ==
    \E id \in Ids :
        /\ StoreCall(p, NoLocals,
                Call("hasSession", id, BoolText(hasSession(sessionStore, id)),
                     "", "", <<>>))
        /\ UNCHANGED sessionStore

LibraryNext ==
    \E p \in Procs :
        \/ Detect(p)
        \/ BuildPlan(p)
        \/ MarkCurrent(p)
        \/ MarkCompleted(p)
        \/ MarkFailed(p)
        \/ Classify(p)
        \/ SelectModel(p)
        \/ FormatOptions(p)

LibrarySpec == LibraryInit /\ [][LibraryNext]_vars

StoreNext ==
    \E p \in Procs :
        \/ StoreSession(p)
        \/ UpdateSession(p)
        \/ GetSession(p)
        \/ DeleteSession(p)
        \/ HasSession(p)

StoreSpec == LibraryInit /\ [][StoreNext]_vars

\* =================================================================== claims
\* vocabulary of the claims, stated on the payloads and the traces
IsCreatedEvent(e) ==
    e.type = "AgentSessionEvent" /\ e.action = "created" /\ e.shape = "ok"

IsPromptedEvent(e) ==
    e.type = "AgentSessionEvent" /\ e.action = "prompted" /\ e.shape = "ok"

\* the payload has a signal keyed 'repository' with a non-empty value
CarriesSelection(e) ==
    \E i \in 1..Len(e.agentSession.signals) :
        /\ e.agentSession.signals[i].key = "repository"
        /\ e.agentSession.signals[i].value # ""

\* the value of that signal
SelectionValue(e) ==
    e.agentSession.signals[CHOOSE i \in 1..Len(e.agentSession.signals) :
        e.agentSession.signals[i].key = "repository"].value

InitOps == {"chats.create", "chats.init"}
GenerationOps == InitOps \cup {"chats.sendMessage", "projects.find", "projects.create"}
DeploymentOps == {"deployments.create"}
StoreOps == {"storeSession", "updateSession"}

\* positions of a trace holding one of the operations
Positions(t, ops) == {i \in 1..Len(t) : t[i].op \in ops}

\* positions of a trace holding an activity of the type
ActivityPositions(t, type) ==
    {i \in 1..Len(t) : t[i].op = "createAgentActivity" /\ t[i].a = type}

\* an external call of the invocation failed, or it had no tracker client
Failed(p) == loc[p].error # Undefined \/ ~hasToken

\* C1: handling a created event for an id whose Session is already in the
\* store short-circuits: it makes no create/init call and persists nothing, so
\* two created events for one id give one Session and at most one generation
\* session.
C1_IdempotentCreation ==
    [][\A p \in Procs :
        (IsCreatedEvent(ev'[p]) /\ ev'[p].agentSession.id \in DOMAIN sessionStore)
        => \A i \in (Len(trace[p]) + 1)..Len(trace'[p]) :
                trace'[p][i].op \notin InitOps \cup {"storeSession"}]_vars

\* C2: whatever a created or prompted invocation has done so far (calls and
\* store writes), the first thing was the thought activity for its session id.
C2_ThoughtFirst ==
    \A p \in Procs :
        ((IsCreatedEvent(ev[p]) \/ IsPromptedEvent(ev[p])) /\ trace[p] # <<>>)
        => /\ trace[p][1].op = "createAgentActivity"
           /\ trace[p][1].a = "thought"
           /\ trace[p][1].sid = ev[p].agentSession.id

C2_Witness ==
    \E p \in Procs :
        /\ IsCreatedEvent(ev[p])
        /\ pc[p] = "done"
        /\ result[p].success
        /\ Positions(trace[p], {"storeSession"}) # {}
        /\ Positions(trace[p], {"updateAgentSession"}) # {}

\* C3: every invocation of handleLinearWebhook settles to a result object
\* with a success flag and a message; its promise is never rejected.
C3_NeverRejects ==
    \A p \in Procs : pc[p] = "done" => result[p].state = "returned"

\* C4: a prompted event without a repository selection, for an id that has
\* no Session, makes no generation call and no deployment call and returns
\* success = false.
C4_MissingSessionNoCalls ==
    \A p \in Procs :
        (/\ IsPromptedEvent(ev[p])
         /\ ~CarriesSelection(ev[p])
         /\ ev[p].agentSession.id \notin DOMAIN sessionStore)
        => /\ Positions(trace[p], GenerationOps \cup DeploymentOps) = {}
           /\ pc[p] = "done" => (result[p].state = "returned" /\ ~result[p].success)

C4_Witness ==
    \E p \in Procs :
        /\ IsPromptedEvent(ev[p])
        /\ ~CarriesSelection(ev[p])
        /\ ev[p].agentSession.id \notin DOMAIN sessionStore
        /\ ev[p].agentSession.signals # <<>>
        /\ pc[p] = "done"
        /\ ~result[p].success
        /\ Len(trace[p]) >= 2

\* C5: a prompted event without a repository selection, for an id that has
\* no Session, leaves the store without a record for that id at every step,
\* and once the acknowledged event has ended an error activity was emitted.
C5_MissingSessionNotFabricated ==
    [][\A p \in Procs :
        (/\ IsPromptedEvent(ev'[p])
         /\ ~CarriesSelection(ev'[p])
         /\ ev'[p].agentSession.id \notin DOMAIN sessionStore)
        => /\ ev'[p].agentSession.id \notin DOMAIN sessionStore'
           /\ (pc'[p] = "done" /\ trace'[p] # <<>>)
                => ActivityPositions(trace'[p], "error") # {}]_vars

C5_Witness ==
    \E p \in Procs :
        /\ IsPromptedEvent(ev[p])
        /\ ~CarriesSelection(ev[p])
        /\ ev[p].agentSession.id \notin DOMAIN sessionStore
        /\ pc[p] = "done"
        /\ result[p].message = "No session found"
        /\ ActivityPositions(trace[p], "error") # {}
        /\ Positions(trace[p], StoreOps) = {}

\* C6: once the Session of an id has a chat id, no step changes the chat id
\* stored for that id.
C6_ChatIdImmutable ==
    [][\A id \in Ids :
        id \in DOMAIN sessionStore
        => /\ id \in DOMAIN sessionStore'
           /\ sessionStore'[id].chatId = sessionStore[id].chatId]_vars

\* C7: a prompted event carrying a repository selection for an id that
\* already has a Session makes no init-from-repository call and leaves the
\* stored Session as it is.
C7_SelectionOnlyWithoutSession ==
    [][\A p \in Procs :
        (/\ IsPromptedEvent(ev'[p])
         /\ CarriesSelection(ev'[p])
         /\ ev'[p].agentSession.id \in DOMAIN sessionStore)
        => /\ \A i \in (Len(trace[p]) + 1)..Len(trace'[p]) :
                    trace'[p][i].op # "chats.init"
           /\ sessionStore'[ev'[p].agentSession.id]
                = sessionStore[ev'[p].agentSession.id]]_vars

\* C8: a created event with more than one repository suggestion makes no
\* generation call and persists nothing; unless one of its activity emissions
\* failed it ends with the awaiting-selection result, having emitted an
\* elicitation that lists the candidates.
C8_AmbiguitySuspends ==
    \A p \in Procs :
        (IsCreatedEvent(ev[p]) /\ Len(ev[p].agentSession.issueRepositorySuggestions) > 1)
        => /\ Positions(trace[p], GenerationOps \cup DeploymentOps \cup StoreOps) = {}
           /\ pc[p] = "done"
                => \/ Failed(p) /\ ~result[p].success
                   \/ /\ result[p].success
                      /\ result[p].awaitingSelection
                      /\ \E i \in ActivityPositions(trace[p], "elicitation") :
                            /\ Len(trace[p][i].list)
                                 = Len(ev[p].agentSession.issueRepositorySuggestions)
                            /\ \A k \in 1..Len(trace[p][i].list) :
                                  /\ trace[p][i].list[k].key = RepoKey(k)
                                  /\ trace[p][i].list[k].value = SuggestionUrl(
                                        ev[p].agentSession.issueRepositorySuggestions[k])

C8_Witness ==
    \E p \in Procs :
        /\ IsCreatedEvent(ev[p])
        /\ Len(ev[p].agentSession.issueRepositorySuggestions) > 1
        /\ pc[p] = "done"
        /\ result[p].awaitingSelection
        /\ ActivityPositions(trace[p], "elicitation") # {}

\* C9: for every suggestions list l and index i, a prompted event whose
\* repository signal holds formatRepoOptionsForSelect(l)[i].value calls
\* init-from-repository with that URL and persists a Session whose repoUrl
\* is that URL.
C9_SelectionRoundTrip ==
    \A p \in Procs : \A l \in SuggestionLists : \A i \in 1..Len(l) :
        (/\ IsPromptedEvent(ev[p])
         /\ CarriesSelection(ev[p])
         /\ SelectionValue(ev[p]) = formatRepoOptionsForSelect(l)[i].value)
        => LET id == ev[p].agentSession.id
               value == formatRepoOptionsForSelect(l)[i].value
           IN  /\ \A k \in Positions(trace[p], {"chats.init"}) : trace[p][k].a = value
               /\ Positions(trace[p], {"storeSession"}) # {}
                    => /\ id \in DOMAIN sessionStore
                       /\ sessionStore[id].repoUrl = value
                       /\ Positions(trace[p], {"chats.init"}) # {}
               /\ pc[p] = "done"
                    => \/ Failed(p) /\ ~result[p].success
                       \/ /\ result[p].success
                          /\ Positions(trace[p], {"storeSession"}) # {}

C9_Witness ==
    \E p \in Procs :
        /\ IsPromptedEvent(ev[p])
        /\ CarriesSelection(ev[p])
        /\ SelectionValue(ev[p]) = formatRepoOptionsForSelect(<<SugWithUrl, SugNoUrl>>)[2].value
        /\ pc[p] = "done"
        /\ result[p].success
        /\ sessionStore[ev[p].agentSession.id].repoUrl = GithubUrl("acme", "api")

IsRouted(e) ==
    e.type = "AgentSessionEvent" /\ e.action \in {"created", "prompted"}

\* the events of a behaviour whose prompt is no deploy command
NotDeployPrompts == {PromptEmpty, PromptRefine}

C12_LinkAdditivity ==
    \A p \in Procs :
        (/\ IsPromptedEvent(ev[p])
         /\ pc[p] = "done"
         /\ result[p].success
         /\ result[p].deploymentUrl # Undefined)
        => LET id == ev[p].agentSession.id
               links == externalUrls[id]
           IN  /\ id \in DOMAIN sessionStore
               /\ Len(links) = 2
               /\ links[1] = [label |-> "V0 Chat", url |-> sessionStore[id].chatUrl]
               /\ links[2] = [label |-> "Vercel Deployment",
                              url |-> result[p].deploymentUrl]
               /\ links[1].url # links[2].url

\* the second successful deploy of a session created two events earlier
C12_Witness ==
    \E p \in Procs :
        /\ IsPromptedEvent(ev[p])
        /\ pc[p] = "done"
        /\ result[p].success
        /\ received = 3
        /\ Len(projects) = 1
        /\ sessionStore[ev[p].agentSession.id].chatId = ChatId(2)
        /\ sessionStore[ev[p].agentSession.id].latestVersionId = Undefined
        /\ result[p].deploymentUrl = DeploymentUrl(4)
        /\ Len(externalUrls[ev[p].agentSession.id]) = 2

\* the message the error activity of a handler carries for a failure
C13_Text(e, message) ==
    IF e.action = "created" THEN "Failed to create V0 session: " \o message
    ELSE "Error: " \o message

\* C13: once an external call of a created or prompted invocation has
\* failed, the last call of the invocation is the attempt to emit an error
\* activity carrying the failure message, and the invocation returns
\* success = false with that message, also when that attempt itself failed.
C13_FailureReported ==
    \A p \in Procs :
        (IsRouted(ev[p]) /\ loc[p].error # Undefined)
        => /\ trace[p] # <<>>
           /\ trace[p][Len(trace[p])].op = "createAgentActivity"
           /\ trace[p][Len(trace[p])].a = "error"
           /\ trace[p][Len(trace[p])].sid = ev[p].agentSession.id
           /\ trace[p][Len(trace[p])].b = C13_Text(ev[p], loc[p].error)
           /\ pc[p] \in {"error", "done"}
           /\ pc[p] = "done"
                => /\ result[p].state = "returned"
                   /\ ~result[p].success
                   /\ result[p].message = loc[p].error

\* the generation call failed and so did the error activity reporting it
C13_Witness ==
    \E p \in Procs :
        /\ IsCreatedEvent(ev[p])
        /\ pc[p] = "done"
        /\ loc[p].error = "chats.init failed"
        /\ loc[p].swallowed
        /\ result[p].message = "chats.init failed"
        /\ ~result[p].success

\* C14: when a created event has returned success with a chat id, the store
\* holds a record under the event's session id whose chat id is the returned
\* one and whose project id is the project of the invocation's create or
\* init call.
C14_CreatedPersists ==
    \A p \in Procs :
        (/\ IsCreatedEvent(ev[p])
         /\ pc[p] = "done"
         /\ result[p].success
         /\ result[p].chatId # Undefined)
        => LET id == ev[p].agentSession.id
           IN  /\ id \in DOMAIN sessionStore
               /\ sessionStore[id].linearSessionId = id
               /\ sessionStore[id].chatId = result[p].chatId
               /\ Cardinality(Positions(trace[p], InitOps)) = 1
               /\ \A k \in Positions(trace[p], {"chats.create"}) :
                    sessionStore[id].projectId = trace[p][k].a
               /\ \A k \in Positions(trace[p], {"chats.init"}) :
                    sessionStore[id].projectId = trace[p][k].b
               /\ \E i \in 1..Len(projects) :
                    projects[i].id = sessionStore[id].projectId

C14_Witness ==
    \E p \in Procs :
        /\ IsCreatedEvent(ev[p])
        /\ pc[p] = "done"
        /\ result[p].success
        /\ result[p].chatId = ChatId(2)
        /\ sessionStore[ev[p].agentSession.id].chatId = ChatId(2)
        /\ sessionStore[ev[p].agentSession.id].projectId = ProjectId(1)

\* C15: an event whose (type, action) pair is neither AgentSessionEvent.created
\* nor AgentSessionEvent.prompted is answered with the 'ignored' result in one
\* step that makes no outbound call and leaves the Session Store as it was.
C15_IgnoredNoEffect ==
    [][\A p \in Procs :
        (pc'[p] = "done" /\ ~IsRouted(ev'[p]))
        => /\ result'[p].state = "returned"
           /\ result'[p].success
           /\ result'[p].message = "Event ignored"
           /\ trace'[p] = <<>>
           /\ sessionStore' = sessionStore
           /\ externalUrls' = externalUrls]_vars

\* an ignored event delivered while the store holds a Session
C15_Witness ==
    \E p \in Procs :
        /\ ~IsRouted(ev[p])
        /\ ev[p].action = "removed"
        /\ pc[p] = "done"
        /\ result[p].message = "Event ignored"
        /\ trace[p] = <<>>
        /\ DOMAIN sessionStore # {}

\* C16: a created or prompted event whose data has no agentSession is
\* answered in one step with success = false and a result that is not the
\* 'ignored' one; the step emits no activity, calls no service and leaves
\* the Session Store as it was.
C16_MissingAgentSession ==
    [][\A p \in Procs :
        (pc'[p] = "done" /\ IsRouted(ev'[p]) /\ ev'[p].shape = "noAgentSession")
        => /\ result'[p].state = "returned"
           /\ ~result'[p].success
           /\ result'[p].message # "Event ignored"
           /\ trace'[p] = <<>>
           /\ sessionStore' = sessionStore
           /\ externalUrls' = externalUrls]_vars

C16_Witness ==
    \E p \in Procs :
        /\ ev[p].action = "prompted"
        /\ ev[p].shape = "noAgentSession"
        /\ pc[p] = "done"
        /\ ~result[p].success
        /\ trace[p] = <<>>
        /\ DOMAIN sessionStore # {}

\* positions of a plan whose step has the state
StepsIn(plan, state) == {i \in 1..Len(plan) : plan[i].state = state}

\* C17: for every plan and every in-range index k, every step of
\* markStepCompleted(plan, k) at an index <= k is COMPLETED, and
\* markStepCurrent(plan, k) has exactly one CURRENT step, the one at index k.
C17_PlanMonotonicity ==
    \A p \in Procs :
        (trace[p] # <<>> /\ trace[p][1].op \in {"markStepCompleted", "markStepCurrent"})
        => LET plan == trace[p][1].list
           IN  \A k \in 0..(Len(plan) - 1) :
                 trace[p][1].a = ToString(k)
                 => /\ trace[p][1].op = "markStepCompleted"
                         => \A i \in 1..(k + 1) : plan[i].state = "COMPLETED"
                    /\ trace[p][1].op = "markStepCurrent"
                         => StepsIn(plan, "CURRENT") = {k + 1}

\* markStepCurrent at index 3 of a six-step plan
C17_Witness ==
    \E p \in Procs :
        /\ trace[p] # <<>>
        /\ trace[p][1].op = "markStepCurrent"
        /\ trace[p][1].a = "3"
        /\ Len(trace[p][1].list) = 6
        /\ StepsIn(trace[p][1].list, "CURRENT") = {4}
        /\ StepsIn(trace[p][1].list, "COMPLETED") = {1, 2, 3}

\* a plan has at most one CURRENT step and no PENDING step before it
WellFormedPlan(plan) ==
    /\ Cardinality(StepsIn(plan, "CURRENT")) <= 1
    /\ \A j \in StepsIn(plan, "CURRENT") : \A i \in 1..(j - 1) :
            plan[i].state # "PENDING"

\* the generation step of an initial plan is CURRENT only when no selection
\* step and no import step precedes it
GenerationStartsLast(plan) ==
    \A j \in StepsIn(plan, "CURRENT") :
        plan[j].text = "Generate UI components with V0"
        => \A i \in 1..(j - 1) :
                plan[i].text \notin {"Wait for repository selection",
                                     "Import repository context"}

\* C18: the plan generateUIGenerationPlan returns for each of the four
\* (hasRepo, needsSelection) combinations is well formed: at most one CURRENT
\* step, no PENDING step before it, the generation step CURRENT only when
\* neither a selection step nor an import step precedes it.
C18_InitialPlanWellFormed ==
    \A p \in Procs :
        (trace[p] # <<>> /\ trace[p][1].op = "generateUIGenerationPlan")
        => /\ WellFormedPlan(trace[p][1].list)
           /\ GenerationStartsLast(trace[p][1].list)

\* C19: for a payload with a non-empty suggestions list the resolver returns
\* the URL of the first suggestion (its url, or https://github.com/owner/name
\* when it has none) with the suggestions source and the full list, also when
\* the description holds a GitHub URL; it answers from the description only
\* when the suggestions list is empty.
C19_ResolverPrecedence ==
    \A p \in Procs :
        (trace[p] # <<>> /\ trace[p][1].op = "detectRepository")
        => LET l == ev[p].agentSession.issueRepositorySuggestions
               d == ev[p].agentSession.issue.description
               fromDescription == "https://github.com/" \o d.owner \o "/" \o d.base
           IN  /\ Len(l) > 0
                    => /\ trace[p][1].a =
                            IF l[1].url # "" THEN l[1].url
                            ELSE "https://github.com/" \o l[1].owner \o "/" \o l[1].name
                       /\ trace[p][1].b = "issueRepositorySuggestions"
                       /\ trace[p][1].list = l
                       /\ d.matched => trace[p][1].a # fromDescription
               /\ trace[p][1].b = "description"
                    => /\ Len(l) = 0
                       /\ d.matched
                       /\ trace[p][1].a = fromDescription

\* two suggestions, the first without a url, and a GitHub URL in the description
C19_Witness ==
    \E p \in Procs :
        /\ trace[p] # <<>>
        /\ trace[p][1].op = "detectRepository"
        /\ Len(ev[p].agentSession.issueRepositorySuggestions) = 2
        /\ ev[p].agentSession.issueRepositorySuggestions[1].url = ""
        /\ ev[p].agentSession.issue.description.matched
        /\ trace[p][1].a = "https://github.com/acme/api"

\* C20: updateSession on an id that has no record leaves the store as it
\* was, every other record included, creates no record and settles nothing
\* as rejected.
C20_UpdateMissingNoOp ==
    [][\A p \in Procs :
        (/\ Len(trace'[p]) = Len(trace[p]) + 1
         /\ trace'[p][Len(trace'[p])].op = "updateSession"
         /\ trace'[p][Len(trace'[p])].sid \notin DOMAIN sessionStore)
        => /\ sessionStore' = sessionStore
           /\ trace'[p][Len(trace'[p])].sid \notin DOMAIN sessionStore'
           /\ result'[p].state # "rejected"]_vars

\* an update of S2 while the store holds S1 only
C20_Witness ==
    \E p \in Procs :
        /\ trace[p] # <<>>
        /\ trace[p][Len(trace[p])].op = "updateSession"
        /\ trace[p][Len(trace[p])].sid = "S2"
        /\ DOMAIN sessionStore = {"S1"}

\* the last call of a sequence of calls
LastCall(t) == t[Len(t)]

\* C21: updateSession on an id that has a record changes the fields given and
\* updatedAt and nothing else: every other field of the record, the chat id,
\* the project id, the chat URL and createdAt among them, keeps its value, and
\* so does every record of another id.
C21_UpdateFrame ==
    [][\A p \in Procs :
        (/\ Len(trace'[p]) = Len(trace[p]) + 1
         /\ LastCall(trace'[p]).op = "updateSession"
         /\ LastCall(trace'[p]).sid \in DOMAIN sessionStore)
        => LET id == LastCall(trace'[p]).sid
               field == LastCall(trace'[p]).b
           IN  /\ DOMAIN sessionStore' = DOMAIN sessionStore
               /\ \A other \in DOMAIN sessionStore \ {id} :
                    sessionStore'[other] = sessionStore[other]
               /\ DOMAIN sessionStore'[id] = DOMAIN sessionStore[id]
               /\ \A f \in DOMAIN sessionStore[id] \ {field, "updatedAt"} :
                    sessionStore'[id][f] = sessionStore[id][f]
               /\ sessionStore'[id][field] = LastCall(trace'[p]).c
               /\ sessionStore'[id].updatedAt = clock]_vars

\* the deployment URL of S1 was updated while the store held S1 and S2
C21_Witness ==
    \E p \in Procs :
        /\ trace[p] # <<>>
        /\ LastCall(trace[p]).op = "updateSession"
        /\ LastCall(trace[p]).sid = "S1"
        /\ DOMAIN sessionStore = {"S1", "S2"}
        /\ sessionStore["S1"].deploymentUrl = DeploymentUrl(1)
        /\ sessionStore["S1"].chatId # Undefined
        /\ sessionStore["S1"].updatedAt # sessionStore["S1"].createdAt

\* the storeSession and deleteSession calls of a history for an id
Puts(t, id) ==
    {i \in 1..Len(t) : t[i].sid = id /\ t[i].op \in {"storeSession", "deleteSession"}}

\* the id was put, and not deleted since its last put
Present(t, id) ==
    /\ Puts(t, id) # {}
    /\ t[CHOOSE i \in Puts(t, id) : \A j \in Puts(t, id) : j <= i].op = "storeSession"

\* C22: after any sequence of store calls getSession(id) returns undefined
\* exactly when the id was never stored or was deleted after it was last
\* stored, and otherwise the record of that id; getSession(id) right after
\* storeSession(id, data) returns a record with data's fields and nothing of
\* an earlier record (no deploymentUrl, no latestVersionId).
C22_GetAfterPut ==
    \A p \in Procs :
        (trace[p] # <<>> /\ LastCall(trace[p]).op = "getSession")
        => LET t == trace[p]
               id == LastCall(t).sid
               got == loc[p].session
           IN  /\ got = <<>> <=> ~Present(t, id)
               /\ got # <<>> => got[1].linearSessionId = id
               /\ (Len(t) >= 2 /\ t[Len(t) - 1].op = "storeSession"
                                /\ t[Len(t) - 1].sid = id)
                    => /\ got # <<>>
                       /\ got[1].chatId = t[Len(t) - 1].a
                       /\ got[1].chatUrl = "https://v0.dev/chat/" \o t[Len(t) - 1].a
                       /\ got[1].repoUrl = t[Len(t) - 1].c
                       /\ got[1].deploymentUrl = Undefined
                       /\ got[1].latestVersionId = Undefined
                       /\ got[1].createdAt = got[1].updatedAt

\* store, update, store again, get: the deployment URL of the first record is gone
C22_Witness ==
    \E p \in Procs :
        /\ Len(trace[p]) = 4
        /\ trace[p][1].op = "storeSession"
        /\ trace[p][2].op = "updateSession"
        /\ trace[p][2].b = "deploymentUrl"
        /\ trace[p][3].op = "storeSession"
        /\ trace[p][4].op = "getSession"
        /\ \A i \in 1..4 : trace[p][i].sid = "S1"
        /\ loc[p].session # <<>>
        /\ loc[p].session[1].deploymentUrl = Undefined

\* the index a mark call was made with is k
CalledWith(call, op, k) == call.op = op /\ call.a = ToString(k)

\* C26, as the code has it: for every plan and every in-range index k,
\* markStepCurrent(plan, k) sets step k to CURRENT, every step before k to
\* COMPLETED and every step after k to PENDING, and changes no text: the
\* later steps are as they were exactly when they were PENDING already.
C26_MarkCurrentFrame ==
    [][\A p \in Procs : \A k \in 0..(Len(loc[p].planSteps) - 1) :
        (trace'[p] # <<>> /\ CalledWith(trace'[p][1], "markStepCurrent", k))
        => LET before == loc[p].planSteps
               after == loc'[p].planSteps
           IN  /\ Len(after) = Len(before)
               /\ \A i \in 1..Len(before) : after[i].text = before[i].text
               /\ after[k + 1].state = "CURRENT"
               /\ \A i \in 1..k : after[i].state = "COMPLETED"
               /\ \A i \in (k + 2)..Len(before) : after[i].state = "PENDING"
               /\ (\A i \in (k + 2)..Len(before) : before[i].state = "PENDING")
                    => \A i \in (k + 2)..Len(before) : after[i].state = before[i].state]_vars

\* markStepCurrent at index 1 of the five-step plan of a detected repository
C26_Witness ==
    \E p \in Procs :
        /\ trace[p] # <<>>
        /\ CalledWith(trace[p][1], "markStepCurrent", 1)
        /\ Len(loc[p].planSteps) = 5
        /\ loc[p].planSteps[1].state = "COMPLETED"
        /\ loc[p].planSteps[2].state = "CURRENT"
        /\ \A i \in 3..5 : loc[p].planSteps[i].state = "PENDING"

\* C26, as stated: markStepCurrent(plan, k) leaves the state of every step
\* after k exactly as it was in the plan it was given, whatever that state was.
C26_LaterStepsUntouched ==
    [][\A p \in Procs : \A k \in 0..(Len(loc[p].planSteps) - 1) :
        (trace'[p] # <<>> /\ CalledWith(trace'[p][1], "markStepCurrent", k))
        => \A i \in (k + 2)..Len(loc[p].planSteps) :
                loc'[p].planSteps[i].state = loc[p].planSteps[i].state]_vars

\* C27: with an index outside the plan's range (negative, or the number of
\* steps or more) markStepCurrent, markStepCompleted and markStepFailed
\* return every step with the state it had.
C27_OutOfRangeUntouched ==
    [][\A p \in Procs : \A k \in {-1, Len(loc[p].planSteps)} :
        \A op \in {"markStepCurrent", "markStepCompleted", "markStepFailed"} :
            (trace'[p] # <<>> /\ CalledWith(trace'[p][1], op, k))
            => /\ Len(loc'[p].planSteps) = Len(loc[p].planSteps)
               /\ \A i \in 1..Len(loc[p].planSteps) :
                    loc'[p].planSteps[i].state = loc[p].planSteps[i].state]_vars

\* the characters of a word: letters, digits and the underscore
WordCharacters ==
    {"a", "b", "c", "d", "e", "f", "g", "h", "i", "j", "k", "l", "m", "n", "o", "p",
     "q", "r", "s", "t", "u", "v", "w", "x", "y", "z", "D", "E", "P", "L", "O", "Y",
     "_"}

\* the words of a text: its maximal runs of word characters
Words(t) ==
    {w \in (1..Len(t)) \X (1..Len(t)) :
        /\ w[1] <= w[2]
        /\ \A k \in w[1]..w[2] : t[k] \in WordCharacters
        /\ w[1] = 1 \/ t[w[1] - 1] \notin WordCharacters
        /\ w[2] = Len(t) \/ t[w[2] + 1] \notin WordCharacters}

\* the word, in lower case
WordAt(t, w) ==
    [k \in 1..(w[2] - w[1] + 1) |->
        CASE t[w[1] + k - 1] = "D" -> "d"
          [] t[w[1] + k - 1] = "E" -> "e"
          [] t[w[1] + k - 1] = "P" -> "p"
          [] t[w[1] + k - 1] = "L" -> "l"
          [] t[w[1] + k - 1] = "O" -> "o"
          [] t[w[1] + k - 1] = "Y" -> "y"
          [] OTHER -> t[w[1] + k - 1]]

\* C28: the deploy test answers true exactly for the texts that have
\* 'deploy' as a whole word in any letter case: 'redeploy' and 'deployment'
\* are refinement feedback, and "redeploy the styling, don't deploy yet" is
\* a deploy command.
C28_DeployWholeWord ==
    \A p \in Procs :
        (trace[p] # <<>> /\ trace[p][1].op = "isDeployCommand")
        => LET t == trace[p][1].list
           IN  /\ trace[p][1].a \in {"true", "false"}
               /\ trace[p][1].a = "true"
                    <=> \E w \in Words(t) :
                            WordAt(t, w) = <<"d", "e", "p", "l", "o", "y">>
               /\ t \in {TextRedeploy, TextDeployment} => trace[p][1].a = "false"
               /\ t = TextBoth => trace[p][1].a = "true"

C28_Witness ==
    \E p \in Procs :
        /\ trace[p] # <<>>
        /\ trace[p][1].op = "isDeployCommand"
        /\ trace[p][1].list = TextBoth
        /\ trace[p][1].a = "true"

\* the links a call published
LinksOf(call) == {call.list[i] : i \in 1..Len(call.list)}

\* C23: a created event that returned success with a chat id made its calls
\* in this order: the thought activity first, then the one create or init
\* call of the generation service, then the write of the Session, then the
\* link update that carries the chat's URL, and the 'message' activity last.
C23_CreatedOrder ==
    \A p \in Procs :
        (/\ IsCreatedEvent(ev[p])
         /\ pc[p] = "done"
         /\ result[p].success
         /\ result[p].chatId # Undefined)
        => LET t == trace[p]
               sid == ev[p].agentSession.id
           IN  /\ Len(t) >= 5
               /\ t[1] = Activity(sid, "thought", ThoughtText("created"))
               /\ Cardinality(Positions(t, InitOps)) = 1
               /\ Cardinality(Positions(t, {"storeSession"})) = 1
               /\ Cardinality(Positions(t, {"updateAgentSession"})) = 1
               /\ ActivityPositions(t, "message") = {Len(t)}
               /\ \A i \in Positions(t, InitOps) :
                  \A j \in Positions(t, {"storeSession"}) :
                  \A k \in Positions(t, {"updateAgentSession"}) :
                    /\ 1 < i /\ i < j /\ j < k /\ k < Len(t)
                    /\ t[j].a = result[p].chatId
                    /\ Link("V0 Chat", ChatUrl(result[p].chatId)) \in LinksOf(t[k])

\* a created event with a detected repository has run to its success
C23_Witness ==
    \E p \in Procs :
        /\ IsCreatedEvent(ev[p])
        /\ pc[p] = "done"
        /\ result[p].success
        /\ result[p].chatId = ChatId(2)
        /\ Positions(trace[p], {"chats.init"}) # {}
        /\ ActivityPositions(trace[p], "message") = {Len(trace[p])}

\* the failures of the project lookup and of the generation call
InitFailures ==
    {FailureOf(op) : op \in {"projects.find", "projects.create",
                             "chats.init", "chats.create"}}

\* C29: an invocation whose project lookup or generation call failed, on a
\* created event or on the resolution of a selection, writes no Session,
\* makes no link update and emits no 'message' activity; and every Session
\* in the store carries the chat id of a generation session that was created.
C29_NoSessionWithoutInit ==
    /\ \A p \in Procs :
        loc[p].error \in InitFailures
        => /\ Positions(trace[p], StoreOps) = {}
           /\ Positions(trace[p], {"updateAgentSession"}) = {}
           /\ ActivityPositions(trace[p], "message") = {}
    /\ \A p \in Procs : \A j \in Positions(trace[p], {"storeSession"}) :
        \E i \in Positions(trace[p], InitOps) : i < j
    /\ \A id \in DOMAIN sessionStore :
        sessionStore[id].chatId \in DOMAIN v0SessionStore

\* the init call of a resolved selection has failed and been reported
C29_Witness ==
    \E p \in Procs :
        /\ IsPromptedEvent(ev[p])
        /\ CarriesSelection(ev[p])
        /\ pc[p] = "done"
        /\ loc[p].error = FailureOf("chats.init")
        /\ ev[p].agentSession.id \notin DOMAIN sessionStore

\* C30: whatever step of an invocation fails, the invocation attempts to
\* emit at most one activity of type error.
C30_OneErrorEmission ==
    \A p \in Procs : Cardinality(ActivityPositions(trace[p], "error")) <= 1

\* ------------------------------------------- two invocations in flight
\* the host delivers a second webhook while the first handler is suspended
\* at an await: two invocations of the handlers share the stores, each
\* handles one event, and they interleave at their awaits
Invocations == {1, 2}

\* the events of the interleaved run: one payload for every path of the
\* two handlers, for either id
RaceCreatedEvents ==
    {Event("AgentSessionEvent", "created", "ok", id, NoMatch, <<>>, PromptRefine, s, <<>>) :
        id \in Ids, s \in {<<>>, <<SugWithUrl>>, <<SugWithUrl, SugNoUrl>>}}

RacePromptedEvents ==
    {Event("AgentSessionEvent", "prompted", "ok", id, NoMatch, <<>>, m, <<>>, <<>>) :
        id \in Ids, m \in {PromptDeploy, PromptRefine}}
    \cup {Event("AgentSessionEvent", "prompted", "ok", id, NoMatch, <<>>, PromptDeploy, <<>>,
                 <<[key |-> "repository", value |-> SugWithUrl.url]>>) :
            id \in Ids}

ConcurrentInit ==
    /\ hasToken = TRUE
    /\ sessionStore = <<>>
    /\ v0SessionStore = <<>>
    /\ projects = <<>>
    /\ externalUrls = [id \in Ids |-> <<>>]
    /\ serial = 0
    /\ clock = 0
    /\ received = 0
    /\ pc = [p \in Invocations |-> "idle"]
    /\ ev = [p \in Invocations |-> NoEvent]
    /\ loc = [p \in Invocations |-> NoLocals]
    /\ trace = [p \in Invocations |-> <<>>]
    /\ result = [p \in Invocations |-> NoResult]

ConcurrentCreatedEntry(p) == \E e \in RaceCreatedEvents : HandlerEntry(p, e, "c_thought")

ConcurrentPromptedEntry(p) == \E e \in RacePromptedEvents : HandlerEntry(p, e, "p_thought")

ConcurrentNext ==
    \E p \in Invocations :
        \/ ConcurrentCreatedEntry(p)
        \/ ConcurrentPromptedEntry(p)
        \/ ErrorSettled(p)
        \/ CreatedThought(p)
        \/ CreatedPlan(p)
        \/ CreatedElicitation(p)
        \/ CreatedFind(p)
        \/ CreatedProject(p)
        \/ CreatedImportPlan(p)
        \/ CreatedInit(p)
        \/ CreatedCreate(p)
        \/ CreatedGenerationPlan(p)
        \/ CreatedLinks(p)
        \/ CreatedMessage(p)
        \/ PromptedThought(p)
        \/ PromptedFind(p)
        \/ PromptedProject(p)
        \/ PromptedInit(p)
        \/ PromptedLinks(p)
        \/ PromptedMessage(p)
        \/ PromptedNoSession(p)
        \/ PromptedDeploying(p)
        \/ PromptedDeploy(p)
        \/ PromptedDeployLinks(p)
        \/ PromptedDeployMessage(p)
        \/ PromptedApplying(p)
        \/ PromptedContinue(p)
        \/ PromptedContinueMessage(p)

ConcurrentSpec == ConcurrentInit /\ [][ConcurrentNext]_vars

\* ------------------------------------ two prompted invocations in flight
\* the state in which a created event for S1, with no repository, has been
\* handled to its success: the project and the chat exist, the Session is
\* stored and the chat link is published
SessionedInit ==
    /\ hasToken = TRUE
    /\ projects = <<[id |-> ProjectId(1),
                     name |-> generateProjectName(IssueOf("S1", NoMatch, <<>>))]>>
    /\ v0SessionStore = [k \in {ChatId(2)} |->
                            [chatId |-> ChatId(2), projectId |-> ProjectId(1),
                             latestVersionId |-> VersionId(2)]]
    /\ sessionStore = storeSession(<<>>, "S1", ChatId(2), ProjectId(1),
                                   ChatUrl(ChatId(2)), Null, 0)
    /\ externalUrls = [id \in Ids |->
                          IF id = "S1" THEN <<Link("V0 Chat", ChatUrl(ChatId(2)))>>
                          ELSE <<>>]
    /\ serial = 2
    /\ clock = 1
    /\ received = 1
    /\ pc = [p \in Invocations |-> "idle"]
    /\ ev = [p \in Invocations |-> NoEvent]
    /\ loc = [p \in Invocations |-> NoLocals]
    /\ trace = [p \in Invocations |-> <<>>]
    /\ result = [p \in Invocations |-> NoResult]

\* two prompted events arrive and interleave at their awaits
PromptedRaceNext ==
    \E p \in Invocations :
        \/ ConcurrentPromptedEntry(p)
        \/ ErrorSettled(p)
        \/ PromptedThought(p)
        \/ PromptedFind(p)
        \/ PromptedProject(p)
        \/ PromptedInit(p)
        \/ PromptedLinks(p)
        \/ PromptedMessage(p)
        \/ PromptedNoSession(p)
        \/ PromptedDeploying(p)
        \/ PromptedDeploy(p)
        \/ PromptedDeployLinks(p)
        \/ PromptedDeployMessage(p)
        \/ PromptedApplying(p)
        \/ PromptedContinue(p)
        \/ PromptedContinueMessage(p)

PromptedRaceSpec == SessionedInit /\ [][PromptedRaceNext]_vars

\* the resumption of a suspended invocation: the call it awaits settles,
\* with a result or with a failure
Resume(p) ==
    \/ ErrorSettled(p)
    \/ CreatedThought(p)
    \/ CreatedPlan(p)
    \/ CreatedElicitation(p)
    \/ CreatedFind(p)
    \/ CreatedProject(p)
    \/ CreatedImportPlan(p)
    \/ CreatedInit(p)
    \/ CreatedCreate(p)
    \/ CreatedGenerationPlan(p)
    \/ CreatedLinks(p)
    \/ CreatedMessage(p)
    \/ PromptedThought(p)
    \/ PromptedFind(p)
    \/ PromptedProject(p)
    \/ PromptedInit(p)
    \/ PromptedLinks(p)
    \/ PromptedMessage(p)
    \/ PromptedNoSession(p)
    \/ PromptedDeploying(p)
    \/ PromptedDeploy(p)
    \/ PromptedDeployLinks(p)
    \/ PromptedDeployMessage(p)
    \/ PromptedApplying(p)
    \/ PromptedContinue(p)
    \/ PromptedContinueMessage(p)

\* every external call eventually returns or fails: a suspended invocation
\* is eventually resumed. The arrival of events is not fair.
FairSpec ==
    ConcurrentInit /\ [][ConcurrentNext]_vars /\ \A p \in Invocations : WF_vars(Resume(p))

\* the invocation is suspended at an await
InFlight(p) == pc[p] \notin {"idle", "done"}

\* C24: while two invocations handle created events for one session id at
\* the same time, between them they have made at most one create or init
\* call of the generation service and written at most one Session.
C24_ConcurrentCreatedOnce ==
    \A p, q \in Invocations :
        (/\ p # q
         /\ InFlight(p) /\ InFlight(q)
         /\ IsCreatedEvent(ev[p]) /\ IsCreatedEvent(ev[q])
         /\ ev[p].agentSession.id = ev[q].agentSession.id)
        => /\ Cardinality(Positions(trace[p], InitOps))
                + Cardinality(Positions(trace[q], InitOps)) <= 1
           /\ Cardinality(Positions(trace[p], {"storeSession"}))
                + Cardinality(Positions(trace[q], {"storeSession"})) <= 1

\* the Session Store has the same record, or the same absence, for the id
SameRecord(id) ==
    /\ (id \in DOMAIN sessionStore) = (id \in DOMAIN sessionStore')
    /\ id \in DOMAIN sessionStore => sessionStore'[id] = sessionStore[id]

\* C25: a step of an invocation that handles an event for session id A, in
\* any interleaving with the other invocation, leaves the Session Store's
\* record of every other id as it was: not created, not changed, not removed.
C25_PerIdIsolation ==
    [][\A p \in Invocations :
        (pc'[p] # pc[p] \/ trace'[p] # trace[p])
        => \A id \in Ids \ {ev'[p].agentSession.id} : SameRecord(id)]_vars

\* two invocations for different ids have overlapped and each has its Session
C25_Witness ==
    \E p, q \in Invocations :
        /\ IsCreatedEvent(ev[p]) /\ ev[p].agentSession.id = "S1"
        /\ IsPromptedEvent(ev[q]) /\ ev[q].agentSession.id = "S2"
        /\ InFlight(p) /\ InFlight(q)
        /\ DOMAIN sessionStore = {"S1", "S2"}
        /\ Positions(trace[p], {"storeSession"}) # {}
        /\ Positions(trace[q], {"storeSession"}) # {}
        /\ sessionStore["S1"].chatId = loc[p].chatId
        /\ sessionStore["S2"].chatId = loc[q].chatId

\* the capability order of the three tiers
TierRank(model) == CASE model = "mini" -> 1 [] model = "pro" -> 2 [] model = "max" -> 3

\* the complexity a getModelTier call was made with
ComplexityOf(call) == CHOOSE c \in 1..5 : ToString(c) = call.a

C33_FormatForSelection ==
    \A p \in Procs :
        (trace[p] # <<>> /\ trace[p][1].op = "formatRepoOptionsForSelect")
        => LET options == trace[p][1].list
               suggestions == ev[p].agentSession.issueRepositorySuggestions
           IN  /\ Len(options) = Len(suggestions)
               /\ \A i \in 1..Len(suggestions) :
                    /\ options[i].key = "repo-" \o ToString(i - 1)
                    /\ options[i].label = suggestions[i].owner \o "/" \o suggestions[i].name
                    /\ suggestions[i].url # "" => options[i].value = suggestions[i].url
                    /\ suggestions[i].url = ""
                        => options[i].value = "https://github.com/" \o suggestions[i].owner
                                                \o "/" \o suggestions[i].name
               /\ Len(options) > 0 => options[1].value = trace[p][1].a

\* two suggestions, the first with a url of its own, the second without
C33_Witness ==
    \E p \in Procs :
        /\ trace[p] # <<>>
        /\ trace[p][1].op = "formatRepoOptionsForSelect"
        /\ Len(trace[p][1].list) = 2
        /\ trace[p][1].list[1].value = SugWithUrl.url
        /\ trace[p][1].list[2].value = "https://github.com/acme/api"
        /\ trace[p][1].a = SugWithUrl.url

\* the payload gives the resolver a repository: a suggestion, or a GitHub
\* address in the description
HasRepository(e) ==
    \/ Len(e.agentSession.issueRepositorySuggestions) > 0
    \/ e.agentSession.issue.description.matched

\* the payload has more than one suggestion
IsAmbiguous(e) == Len(e.agentSession.issueRepositorySuggestions) > 1

\* C32: a created event that is not ambiguous makes at most one
\* initialization call, and exactly one once it has returned success: with a
\* repository it is init-from-repository and never create-from-prompt,
\* without one it is create-from-prompt and never init-from-repository.
C32_OneInitialization ==
    \A p \in Procs :
        (IsCreatedEvent(ev[p]) /\ ~IsAmbiguous(ev[p]))
        => LET t == trace[p]
           IN  /\ Cardinality(Positions(t, InitOps)) <= 1
               /\ HasRepository(ev[p]) => Positions(t, {"chats.create"}) = {}
               /\ ~HasRepository(ev[p]) => Positions(t, {"chats.init"}) = {}
               /\ (pc[p] = "done" /\ result[p].success)
                    => Cardinality(Positions(t, InitOps)) = 1

\* a created event with one suggestion has imported the repository
C32_Witness ==
    \E p \in Procs :
        /\ IsCreatedEvent(ev[p])
        /\ ev[p].agentSession.issueRepositorySuggestions = <<SugNoUrl>>
        /\ pc[p] = "done"
        /\ result[p].success
        /\ \E k \in Positions(trace[p], {"chats.init"}) :
                trace[p][k].a = "https://github.com/acme/api"
        /\ Positions(trace[p], {"chats.create"}) = {}

\* the deployment links the deployment service has issued
IssuedDeploymentUrls == {DeploymentUrl(n) : n \in 1..serial}

\* the deployment link of the id's Session, undefined when it has none
DeploymentUrlOf(store, id) ==
    IF id \in DOMAIN store THEN store[id].deploymentUrl ELSE Undefined

\* every deployment link in the Session Store was issued by the service
DeploymentUrlsIssued ==
    \A id \in DOMAIN sessionStore :
        sessionStore[id].deploymentUrl # Undefined
        => sessionStore[id].deploymentUrl \in IssuedDeploymentUrls

\* an invocation whose deployment call failed has written nothing to the
\* store or the links, and has not returned success
FailedDeployWritesNothing ==
    \A p \in Procs :
        loc[p].error = FailureOf("deployments.create")
        => /\ Positions(trace[p], StoreOps \cup {"updateAgentSession"}) = {}
           /\ pc[p] = "done" => ~result[p].success

\* C34: a Session's deploymentUrl is always a link the deployment service
\* issued; it gets a new value only in the step in which the deployment call
\* of an invocation for its id succeeds, and the value is the link that call
\* returned. A failed deployment call leaves the Session Store and the
\* published links as they were, writes nothing afterwards, and the event
\* returns success=false.
C34_DeploymentUrlOnlyAfterDeploy ==
    [][/\ DeploymentUrlsIssued'
       /\ FailedDeployWritesNothing'
       /\ \A id \in Ids :
            (/\ DeploymentUrlOf(sessionStore', id) # Undefined
             /\ DeploymentUrlOf(sessionStore', id) # DeploymentUrlOf(sessionStore, id))
            => \E p \in Procs :
                /\ ev[p].agentSession.id = id
                /\ pc[p] = "p_deploy"
                /\ LastCall(trace[p]).op = "deployments.create"
                /\ loc'[p].error = Undefined
                /\ DeploymentUrlOf(sessionStore', id) = DeploymentUrl(serial')
                /\ serial' = serial + 1
       /\ \A p \in Procs :
            (pc[p] = "p_deploy" /\ loc'[p].error = FailureOf("deployments.create"))
            => /\ sessionStore' = sessionStore
               /\ externalUrls' = externalUrls]_vars

\* a deployment call has failed for a Session that has no deployment link,
\* and the event has returned
C34_Witness ==
    \E p \in Procs :
        /\ IsPromptedEvent(ev[p])
        /\ pc[p] = "done"
        /\ loc[p].error = FailureOf("deployments.create")
        /\ ~result[p].success
        /\ ev[p].agentSession.id \in DOMAIN sessionStore
        /\ sessionStore[ev[p].agentSession.id].deploymentUrl = Undefined
        /\ externalUrls[ev[p].agentSession.id] =
                <<Link("V0 Chat", sessionStore[ev[p].agentSession.id].chatUrl)>>

\* the outbound calls of a trace: everything but the writes to the store
OutboundCalls(t) == {i \in 1..Len(t) : t[i].op \notin StoreOps}

\* how far a handler is: the await points in the order of the source, the
\* catch block and the return after them
AwaitRank(at) ==
    CASE at = "idle" -> 0
      [] at \in {"c_thought", "p_thought"} -> 1
      [] at \in {"c_plan", "p_find", "p_nosession", "p_deploying", "p_applying"} -> 2
      [] at \in {"c_elicit", "c_find", "p_mkproj", "p_deploy", "p_continue"} -> 3
      [] at \in {"c_mkproj", "p_init", "p_dlinks", "p_cmsg"} -> 4
      [] at \in {"c_plan2", "p_links", "p_dmsg"} -> 5
      [] at \in {"c_init", "c_create", "p_msg"} -> 6
      [] at = "c_plan3" -> 7
      [] at = "c_links" -> 8
      [] at = "c_msg" -> 9
      [] at = "error" -> 10
      [] at = "done" -> 11

\* C35: when every external call eventually returns or fails, an invocation
\* that has started eventually settles with a result; it never makes more
\* than ten outbound calls (the nine of the longest run and the error
\* activity), and every step of it moves forward
\* in the handler: no await point is entered twice, so no call is retried.
C35_Terminates ==
    /\ \A p \in Invocations : InFlight(p) ~> (pc[p] = "done" /\ result[p].state # "pending")
    /\ [](\A p \in Invocations : Cardinality(OutboundCalls(trace[p])) <= 10)
    /\ [][\A p \in Invocations :
            (pc'[p] # pc[p] \/ trace'[p] # trace[p])
            => AwaitRank(pc'[p]) > AwaitRank(pc[p])]_vars

\* the longest run has settled: a created event with a repository whose
\* final message failed
C35_Witness ==
    \E p \in Invocations :
        /\ pc[p] = "done"
        /\ result[p].state = "returned"
        /\ Cardinality(OutboundCalls(trace[p])) = 10

\* the outbound calls an invocation issues in a step
NewCalls(p) ==
    {i \in (Len(trace[p]) + 1)..Len(trace'[p]) : trace'[p][i].op \notin StoreOps}

\* C36: an invocation issues at most one outbound call in a step, and only
\* in the step that resumes it from the call it was awaiting; while it is
\* suspended, the call it awaits is the last one it issued. The step in which
\* a call fails issues the error activity and nothing else, the failure or
\* success of that error activity issues nothing, and neither does a return.
C36_CallsSequential ==
    [][\A p \in Invocations :
        /\ Len(trace'[p]) >= Len(trace[p])
        /\ SubSeq(trace'[p], 1, Len(trace[p])) = trace[p]
        /\ Cardinality(NewCalls(p)) <= 1
        /\ NewCalls(p) # {} => pc'[p] # pc[p] /\ pc'[p] \notin {"idle", "done"}
        /\ pc'[p] \notin {"idle", "done"}
            => trace'[p] # <<>> /\ LastCall(trace'[p]).op \notin StoreOps
        /\ loc'[p].error # loc[p].error
            => /\ Len(trace'[p]) = Len(trace[p]) + 1
               /\ LastCall(trace'[p]).op = "createAgentActivity"
               /\ LastCall(trace'[p]).a = "error"
               /\ pc'[p] = "error"
        /\ pc[p] = "error" => trace'[p] = trace[p] /\ pc'[p] \in {"error", "done"}]_vars

\* an invocation is suspended on its deployment call, its third call, while
\* the other one is suspended on its link update, its seventh
C36_Witness ==
    \E p, q \in Invocations :
        /\ p # q
        /\ pc[p] = "p_deploy"
        /\ LastCall(trace[p]).op = "deployments.create"
        /\ Cardinality(OutboundCalls(trace[p])) = 3
        /\ pc[q] = "c_links"
        /\ LastCall(trace[q]).op = "updateAgentSession"
        /\ Cardinality(OutboundCalls(trace[q])) = 7

\* C37: a prompted event with a repository signal of non-empty value makes
\* no continue-conversation call and no deployment call, and emits no
\* 'action' activity, whatever its prompt text says.
C37_SelectionDoesNotFallThrough ==
    \A p \in Invocations :
        (IsPromptedEvent(ev[p]) /\ CarriesSelection(ev[p]))
        => /\ Positions(trace[p], {"chats.sendMessage"} \cup DeploymentOps) = {}
           /\ ActivityPositions(trace[p], "action") = {}
           /\ (pc[p] = "done" /\ result[p].success)
                => /\ result[p].message = "Repository selected and initialized"
                   /\ Cardinality(Positions(trace[p], {"chats.init"})) = 1

\* a selection whose prompt has the word deploy, for an id that has a
\* Session, has run to its end
C37_Witness ==
    \E p \in Invocations :
        /\ IsPromptedEvent(ev[p])
        /\ CarriesSelection(ev[p])
        /\ Positions(trace[p], {"storeSession"}) # {}
        /\ \E q \in Invocations \ {p} :
            /\ IsCreatedEvent(ev[q])
            /\ ev[q].agentSession.id = ev[p].agentSession.id
            /\ pc[q] = "done" /\ result[q].success
            /\ Positions(trace[q], {"storeSession"}) # {}
        /\ ev[p].agentSession.promptContext = PromptDeploy
        /\ pc[p] = "done"
        /\ result[p].success

\* the created invocation wrote its Session and failed afterwards
FailedAfterPersist(p) ==
    /\ IsCreatedEvent(ev[p])
    /\ Positions(trace[p], {"storeSession"}) # {}
    /\ loc[p].error # Undefined

\* the invocation's event writes a Session for the id: a created event, or
\* a prompted one with a selection
WritesSessionFor(q, id) ==
    /\ ev[q].agentSession.id = id
    /\ IsCreatedEvent(ev[q]) \/ (IsPromptedEvent(ev[q]) /\ CarriesSelection(ev[q]))

\* C38: a created invocation that fails after it wrote its Session returns
\* success=false and the Session stays in the store, with the chat id that
\* invocation got unless another event wrote a Session for the id; a
\* prompted event for the id that reads the store afterwards finds the
\* Session and goes on to deploy or to refine.
C38_SessionSurvivesLateFailure ==
    [][\A p \in Invocations : \A id \in Ids :
        (FailedAfterPersist(p)' /\ ev'[p].agentSession.id = id)
        =>     /\ pc'[p] = "done" => ~result'[p].success
               /\ id \in DOMAIN sessionStore'
               /\ (\A q \in Invocations \ {p} : ~WritesSessionFor(q, id)')
                    => sessionStore'[id].chatId = loc'[p].chatId
               /\ \A q \in Invocations \ {p} :
                    (/\ FailedAfterPersist(p)
                     /\ IsPromptedEvent(ev[q]) /\ ~CarriesSelection(ev[q])
                     /\ ev[q].agentSession.id = id
                     /\ pc[q] = "p_thought"
                     /\ pc'[q] \notin {"p_thought", "error"})
                    => /\ pc'[q] \in {"p_deploying", "p_applying"}
                       /\ loc'[q].session = <<sessionStore[id]>>
                       /\ loc'[q].session[1].chatId = loc[p].chatId]_vars

\* the final message of a created event failed, and a later refinement for
\* the id was applied to the chat of that event
C38_Witness ==
    \E p, q \in Invocations :
        /\ FailedAfterPersist(p)
        /\ pc[p] = "done"
        /\ ~result[p].success
        /\ Len(trace[p]) > 2
        /\ trace[p][Len(trace[p]) - 1].op = "createAgentActivity"
        /\ trace[p][Len(trace[p]) - 1].a = "message"
        /\ IsPromptedEvent(ev[q])
        /\ ev[q].agentSession.id = ev[p].agentSession.id
        /\ pc[q] = "done"
        /\ result[q].success
        /\ result[q].message = "Feedback applied"
        /\ result[q].chatId = loc[p].chatId

\* the version the generation service issued together with the chat
InitialVersion(chatId) ==
    CHOOSE v \in {VersionId(n) : n \in 1..serial} :
        \E n \in 1..serial : chatId = ChatId(n) /\ v = VersionId(n)

\* C40: while a deploy event awaits its deployment call, the version id of
\* that call is the latestVersionId the Session got from the last successful
\* refinement of its chat, or, when the chat has not been refined, the
\* version issued with the chat.
C40_DeploysLatestVersion ==
    \A p \in Procs :
        (IsPromptedEvent(ev[p]) /\ pc[p] = "p_deploy")
        => LET id == ev[p].agentSession.id
               call == LastCall(trace[p])
           IN  /\ call.op = "deployments.create"
               /\ id \in DOMAIN sessionStore
               /\ call.b = sessionStore[id].chatId
               /\ call.c # Undefined
               /\ sessionStore[id].latestVersionId # Undefined
                    => call.c = sessionStore[id].latestVersionId
               /\ sessionStore[id].latestVersionId = Undefined
                    => call.c = InitialVersion(sessionStore[id].chatId)

\* a deploy after a refinement: the call carries the refinement's version,
\* not the one issued with the chat
C40_Witness ==
    \E p \in Procs :
        /\ IsPromptedEvent(ev[p])
        /\ pc[p] = "p_deploy"
        /\ sessionStore[ev[p].agentSession.id].latestVersionId # Undefined
        /\ LastCall(trace[p]).c = sessionStore[ev[p].agentSession.id].latestVersionId
        /\ LastCall(trace[p]).c # InitialVersion(sessionStore[ev[p].agentSession.id].chatId)

\* the values an invocation wrote to the field of its Session
Written(p, field) ==
    {trace[p][i].c : i \in {j \in Positions(trace[p], {"updateSession"}) :
                                trace[p][j].b = field}}

\* C39: when a deploy and a refinement for the same id are in progress at
\* the same time and both have written their field, the Session has both:
\* the deploymentUrl the deploy wrote and the latestVersionId the refinement
\* wrote, whichever wrote first, and the chat id both events read.
C39_NoLostUpdate ==
    \A p, q \in Invocations : \A u \in Written(p, "deploymentUrl") :
        \A v \in Written(q, "latestVersionId") :
            (p # q /\ ev[p].agentSession.id = ev[q].agentSession.id)
            => LET id == ev[p].agentSession.id
               IN  /\ id \in DOMAIN sessionStore
                   /\ sessionStore[id].deploymentUrl = u
                   /\ sessionStore[id].latestVersionId = v
                   /\ sessionStore[id].chatId = loc[p].session[1].chatId
                   /\ sessionStore[id].chatId = loc[q].session[1].chatId
                   /\ sessionStore[id].chatId = ChatId(2)

\* the refinement wrote first, while the deploy awaited its deployment
\* call; both have returned success
C39_Witness ==
    \E p, q \in Invocations :
        /\ p # q
        /\ ev[p].agentSession.id = "S1" /\ ev[q].agentSession.id = "S1"
        /\ pc[p] = "done" /\ result[p].success
        /\ pc[q] = "done" /\ result[q].success
        /\ Written(p, "deploymentUrl") = {DeploymentUrl(4)}
        /\ Written(q, "latestVersionId") = {VersionId(3)}
        /\ LastCall(SubSeq(trace[p], 1, 3)).c = VersionId(2)
        /\ sessionStore["S1"].deploymentUrl = DeploymentUrl(4)
        /\ sessionStore["S1"].latestVersionId = VersionId(3)

\* the state PromptedRaceSpec starts from, as the router reaches it
SessionedReached ==
    /\ hasToken
    /\ projects = <<[id |-> ProjectId(1),
                     name |-> generateProjectName(IssueOf("S1", NoMatch, <<>>))]>>
    /\ DOMAIN v0SessionStore = {ChatId(2)}
    /\ v0SessionStore[ChatId(2)] = [chatId |-> ChatId(2), projectId |-> ProjectId(1),
                                    latestVersionId |-> VersionId(2)]
    /\ sessionStore = storeSession(<<>>, "S1", ChatId(2), ProjectId(1),
                                   ChatUrl(ChatId(2)), Null, 0)
    /\ externalUrls["S1"] = <<Link("V0 Chat", ChatUrl(ChatId(2)))>>
    /\ externalUrls["S2"] = <<>>
    /\ serial = 2 /\ clock = 1 /\ received = 1
    /\ pc[1] = "idle" /\ ev[1] = NoEvent /\ loc[1] = NoLocals
    /\ trace[1] = <<>> /\ result[1] = NoResult

====
